---------------------------- MODULE Spec2Model ----------------------------
(***************************************************************************)
(* A model of the call-report normalisation pipeline:                      *)
(*   - the two period inferrers (04_parse_chicago.py, 05_parse_ffiec.py),  *)
(*   - the column reconciler filter_columns (05_parse_ffiec.py),           *)
(*   - the gap check of the corpus summarizer (06_summarize.py),           *)
(*   - process_quarter and the main loop of 04_parse_chicago.py, run       *)
(*     repeatedly over one output directory.                               *)
(* Each component has its own specification over its own variables; the    *)
(* variables of the other components stay at their idle values.            *)
(***************************************************************************)
EXTENDS Integers, Sequences, FiniteSets, TLC

VARIABLES
    \* period inferrers
    filename,        \* the filename handed to the inferrers, a sequence of characters
    chicagoPeriod,   \* result of infer_reporting_period_from_filename, or Unset
    ffiecQuarter,    \* result of extract_quarter_from_filename, or Unset
    \* column reconciler
    fcDf,            \* the table handed to filter_columns: a sequence of columns
    fcMapping,       \* form_mapping: a set of <<column name, forms string>> pairs
    fcOut,           \* the table filter_columns returned, or NoTable
    \* corpus summarizer
    summaryDf,       \* the summary rows: a set of [entity_type, date]
    gapState,        \* "input" | "done"
    allGaps,         \* all_gaps: a set of <<entity_type, gaps>> pairs
    \* Chicago pipeline
    xptTable,        \* period -> table read from that period's .xpt file
    fs,              \* the output directory: output path -> file
    force,           \* args.force of the current run
    chiPc,           \* "idle" before the first run | "running" | "done"
    todo,            \* filtered_files not yet processed in the current run
    stats,           \* entity_type -> [processed, skipped, total_records]
    lastCall,        \* history: the last process_quarter call
    runHist,         \* history: the current run and the one before it
    \* canonical writer
    wrDf,            \* the table handed to write_parquet_with_metadata
    wrDescriptions,  \* descriptions: a set of <<variable, description>> pairs
    wrFile,          \* the file at output_path, or NoFile
    \* archive reader
    zipMembers,      \* the members of the archive, in namelist() order
    zipResult,       \* what parse_zip_file returned, or NoTable
    \* FFIEC pipeline (05_parse_ffiec.py main)
    bulkFiles,       \* files_to_process, sorted
    bulkForce,       \* args.force
    bulkFs,          \* the output directory: quarter -> file
    bulkPc,          \* "start", "loop" or "done"
    bulkTodo,        \* index of the next file of the loop
    bulkCounts,      \* processed_count, skipped_count, error_count
    bulkExit,        \* the exit status of the script, "running" until it ends
    bulkHist,        \* history: files the loop reached, paths written, summary printed
    \* raw extraction (parse_chicago.py main)
    rawFiles,        \* xpt_files, sorted
    rawParallel,     \* not args.no_parallel
    rawStartDate,    \* start_date, NoPeriod for None
    rawEndDate,      \* end_date, NoPeriod for None
    rawFs,           \* the output directory: quarter -> file
    rawPc,           \* "start", "loop" or "done"
    rawPending,      \* indices of the files not handled yet
    rawCounts,       \* processed_count, skipped_count, error_count
    rawExit,         \* the exit status of the script, "running" until it ends
    rawHist,         \* history: files handled, summary printed
    \* dictionary parser (03_parse_dictionary.py)
    dictRows,        \* the rows of MDRM.csv
    dictEndCol,      \* whether an end date column was found
    dictOut,         \* output_df, or DictUnset
    \* delimited reader (05_parse_ffiec.py parse_text_content, parse_zip_file)
    txtFile,         \* the input file: its name and its members as stored
    txtOut,          \* what one pass of the main loop made of it, or TxtUnset
    \* Chicago reader (04_parse_chicago.py process_quarter, column handling)
    xptColumns,      \* the column names of the table read from the .xpt file
    colOut           \* what process_quarter made of them, or ColUnset

inferVars == <<filename, chicagoPeriod, ffiecQuarter>>
fcVars    == <<fcDf, fcMapping, fcOut>>
gapVars   == <<summaryDf, gapState, allGaps>>
chiVars   == <<xptTable, fs, force, chiPc, todo, stats, lastCall, runHist>>
wrVars    == <<wrDf, wrDescriptions, wrFile>>
coreVars  == <<inferVars, fcVars, gapVars, chiVars>>
zipVars   == <<zipMembers, zipResult>>
bulkVars  == <<bulkFiles, bulkForce, bulkFs, bulkPc, bulkTodo, bulkCounts, bulkExit, bulkHist>>
rawVars   == <<rawFiles, rawParallel, rawStartDate, rawEndDate, rawFs, rawPc, rawPending,
               rawCounts, rawExit, rawHist>>
dictVars  == <<dictRows, dictEndCol, dictOut>>
txtVars   == <<txtFile, txtOut>>
colVars   == <<xptColumns, colOut>>
rdrVars   == <<txtVars, colVars>>
extVars   == <<wrVars, zipVars, bulkVars, rawVars, dictVars, rdrVars>>
vars      == <<coreVars, extVars>>

(***************************************************************************)
(* Characters and digit strings.                                           *)
(***************************************************************************)
DigitChars == <<"0", "1", "2", "3", "4", "5", "6", "7", "8", "9">>

IsDigit(c) == \E d \in 1..10 : DigitChars[d] = c

\* int() of one decimal digit character
DigitVal(c) == (CHOOSE d \in 1..10 : DigitChars[d] = c) - 1

\* int(match.group(k)) for a group of two, respectively four, digits starting at i
Int2(s, i) == DigitVal(s[i]) * 10 + DigitVal(s[i + 1])
Int4(s, i) == Int2(s, i) * 100 + Int2(s, i + 2)

\* the two-digit spelling of a number below 100 (used to build input filenames)
D2(n) == <<DigitChars[(n \div 10) + 1], DigitChars[(n % 10) + 1]>>

\* str.lower() on the letters that occur in the modelled filenames
LowerChar(c) ==
    CASE c = "C" -> "c"
      [] c = "A" -> "a"
      [] c = "L" -> "l"
      [] c = "P" -> "p"
      [] c = "F" -> "f"
      [] c = "I" -> "i"
      [] c = "E" -> "e"
      [] OTHER   -> c

Lower(s) == [i \in 1..Len(s) |-> LowerChar(s[i])]

(***************************************************************************)
(* Results of the inferrers.  All results are records of one shape so that *)
(* they can be compared.                                                   *)
(***************************************************************************)
Unset      == [kind |-> "unset", year |-> 0, month |-> 0, day |-> 0, quarter |-> 0]
Off        == [kind |-> "off",   year |-> 0, month |-> 0, day |-> 0, quarter |-> 0]
NoPeriod   == [kind |-> "none",  year |-> 0, month |-> 0, day |-> 0, quarter |-> 0]

\* pd.Timestamp(year=, month=, day=); .quarter is (month - 1) // 3 + 1
Timestamp(y, m, d) ==
    [kind |-> "ts", year |-> y, month |-> m, day |-> d, quarter |-> ((m - 1) \div 3) + 1]

\* the tuple (year, quarter, quarter_str); quarter_str is f"{year}Q{quarter}",
\* determined by the two numbers
QuarterTuple(y, q) ==
    [kind |-> "quarter", year |-> y, month |-> 0, day |-> 0, quarter |-> q]

(***************************************************************************)
(* infer_reporting_period_from_filename (04_parse_chicago.py)              *)
(***************************************************************************)
\* re.search(r'call?p?(\d{2})(\d{2})', s) tried at position i: the index of
\* the first digit of group 1 when the pattern matches at i, else 0.
\* l? and p? are greedy; since neither "l" nor "p" is a digit, giving one
\* back never turns a failed match into a successful one.
ChicagoMatchAt(s, i) ==
    LET n  == Len(s)
        j1 == i + 3
        j2 == IF j1 <= n /\ s[j1] = "l" THEN j1 + 1 ELSE j1
        j3 == IF j2 <= n /\ s[j2] = "p" THEN j2 + 1 ELSE j2
    IN  IF /\ i + 2 <= n
           /\ s[i] = "c" /\ s[i + 1] = "a" /\ s[i + 2] = "l"
           /\ j3 + 3 <= n
           /\ \A k \in j3..(j3 + 3) : IsDigit(s[k])
        THEN j3
        ELSE 0

\* re.search scans the start positions left to right and returns the first match
RECURSIVE ChicagoSearch(_, _)
ChicagoSearch(s, i) ==
    IF i > Len(s) THEN 0
    ELSE IF ChicagoMatchAt(s, i) # 0 THEN ChicagoMatchAt(s, i)
    ELSE ChicagoSearch(s, i + 1)

\* a plausible slip: the pivot year itself sent to the 2000s
ChicagoYearStrict(year_2digit) ==
    IF year_2digit > 76 THEN 1900 + year_2digit ELSE 2000 + year_2digit

ChicagoYear(year_2digit) ==
    IF year_2digit >= 76 THEN 1900 + year_2digit ELSE 2000 + year_2digit

\* the quarter-end day of a month, 0 where the code returns None
ChicagoDay(month) ==
    IF month = 3 THEN 31
    ELSE IF month = 6 THEN 30
    ELSE IF month = 9 THEN 30
    ELSE IF month = 12 THEN 31
    ELSE 0

infer_reporting_period_from_filename(fn) ==
    LET filename_lower == Lower(fn)
        g == ChicagoSearch(filename_lower, 1)
    IN  IF g # 0
        THEN LET year_2digit == Int2(filename_lower, g)
                 month       == Int2(filename_lower, g + 2)
                 year        == ChicagoYear(year_2digit)
                 day         == ChicagoDay(month)
             IN  IF day = 0 THEN NoPeriod ELSE Timestamp(year, month, day)
        ELSE NoPeriod

(***************************************************************************)
(* extract_quarter_from_filename (05_parse_ffiec.py, parse_ffiec.py)       *)
(***************************************************************************)
\* re.search of eight consecutive digits, (\d{2})(\d{2})(\d{4}) and
\* (\d{4})(\d{2})(\d{2}) alike: the first start position, else 0
RECURSIVE EightDigitSearch(_, _)
EightDigitSearch(s, i) ==
    IF i + 7 > Len(s) THEN 0
    ELSE IF \A k \in i..(i + 7) : IsDigit(s[k]) THEN i
    ELSE EightDigitSearch(s, i + 1)

\* a plausible slip: the upper end of the year range left out
ReasonableDateNoUpper(month, day, year) ==
    1 <= month /\ month <= 12 /\ 1 <= day /\ day <= 31 /\ 1985 <= year

\* "Validate it's a reasonable date"
ReasonableDate(month, day, year) ==
    1 <= month /\ month <= 12 /\ 1 <= day /\ day <= 31 /\ 1985 <= year /\ year <= 2030

\* a plausible slip: the fallback written as month // 3 + 1
QuarterOfSlip(month, day) == (month \div 3) + 1

QuarterOf(month, day) ==
    IF month = 3 /\ day = 31 THEN 1
    ELSE IF month = 6 /\ day = 30 THEN 2
    ELSE IF month = 9 /\ day = 30 THEN 3
    ELSE IF month = 12 /\ day = 31 THEN 4
    ELSE ((month - 1) \div 3) + 1

extract_quarter_from_filename(fn) ==
    LET g == EightDigitSearch(fn, 1)
    IN  IF g = 0 THEN NoPeriod
        ELSE LET month1 == Int2(fn, g)
                 day1   == Int2(fn, g + 2)
                 year1  == Int4(fn, g + 4)
                 year2  == Int4(fn, g)
                 month2 == Int2(fn, g + 4)
                 day2   == Int2(fn, g + 6)
             IN  IF ReasonableDate(month1, day1, year1)
                 THEN QuarterTuple(year1, QuarterOf(month1, day1))
                 ELSE IF ReasonableDate(month2, day2, year2)
                 THEN QuarterTuple(year2, QuarterOf(month2, day2))
                 ELSE NoPeriod

(***************************************************************************)
(* Input filenames of the inferrers.                                       *)
(***************************************************************************)
\* the largest month token tried in a Chicago-style name
MaxMonthToken == 13

ChicagoStems ==
    { <<"c","a","l">>, <<"c","a","l","l">>, <<"c","a","l","p">>,
      <<"c","a","l","l","p">>, <<"C","A","L","L">>, <<"C","a","l","p">>,
      <<"c","a","l","l","l">>, <<"c","l">> }

ChicagoYearTokens == {0, 12, 75, 76, 85, 99}

ChicagoPrefixes ==
    { << >>, <<"x","_">>, <<"c","a","l","9","9","0","1","_">>, <<"c","a","l","1","2">> }

ChicagoSuffixes == { <<".","x","p","t">>, <<"5">> }

ChicagoNames ==
    { pre \o stem \o D2(yy) \o D2(mm) \o suf :
        pre \in ChicagoPrefixes, stem \in ChicagoStems,
        yy \in ChicagoYearTokens, mm \in 0..MaxMonthToken, suf \in ChicagoSuffixes }

\* digit pairs for the four halves of an eight-digit token: months and
\* centuries in the first and third, days and years-of-century in the others
MonthOrCentury == {0, 2, 3, 6, 9, 12, 13, 19, 20}
DayOrYear      == {0, 24, 29, 30, 31, 32, 84, 85}

FfiecPrefixes == { <<"F","F","I","E","C","_">>, <<"7">>, <<"c","a","l","l">> }

FfiecSuffixes == { <<".","t","x","t">> }

FfiecNames ==
    { pre \o D2(a) \o D2(b) \o D2(c) \o D2(d) \o suf :
        pre \in FfiecPrefixes, a \in MonthOrCentury, b \in DayOrYear,
        c \in MonthOrCentury, d \in DayOrYear, suf \in FfiecSuffixes }

PlainNames ==
    { <<"r","e","a","d","m","e">>, <<"c","a","l","l",".","x","p","t">>,
      <<"2","0","2","4","_","0","6","3","0">>, << >> }

Filenames == ChicagoNames \cup FfiecNames \cup PlainNames


(***************************************************************************)
(* Idle values of the components a specification does not exercise.        *)
(***************************************************************************)
InferIdle ==
    /\ filename = << >>
    /\ chicagoPeriod = Off
    /\ ffiecQuarter = Off

(***************************************************************************)
(* Specification of the period inferrers: a filename is drawn, and each    *)
(* inferrer is applied to it once.                                         *)
(***************************************************************************)
InferInit ==
    /\ filename \in Filenames
    /\ chicagoPeriod = Unset
    /\ ffiecQuarter = Unset

(***************************************************************************)
(* filter_columns (05_parse_ffiec.py)                                      *)
(*                                                                         *)
(* A table is a sequence of columns [name, vals]; vals holds one cell per  *)
(* row, "NA" for a missing value.  A forms string is a sequence of pieces: *)
(* form names, the separator "," and the blank " ".                        *)
(***************************************************************************)
FFIEC_031_041_FORMS ==
    {"FFIEC 031", "FFIEC 041", "FFIEC 032", "FFIEC 033", "FFIEC 034", "FFIEC 051"}

METADATA_COLUMNS == {"REPORTING_PERIOD", "RSSD_ID", "RSSD9001", "IDRSSD"}

\* str.upper() on the column names of the modelled tables
Upper(name) ==
    CASE name = "reporting_period" -> "REPORTING_PERIOD"
      [] name = "idrssd"           -> "IDRSSD"
      [] name = "rcon2170"         -> "RCON2170"
      [] name = "rssd_id"          -> "RSSD_ID"
      [] name = "rssd9331"         -> "RSSD9331"
      [] OTHER                     -> name

\* form_mapping.get(col_upper, ''): the empty string for a missing key.
\* A dictionary is a set of <<key, value>> pairs with distinct keys.
MappingGet(form_mapping, key) ==
    IF \E kv \in form_mapping : kv[1] = key
    THEN (CHOOSE kv \in form_mapping : kv[1] = key)[2]
    ELSE << >>

\* set(forms_str.split(',')): the segments between separators, each a
\* sequence of pieces; acc is the segment being read
RECURSIVE SplitComma(_, _)
SplitComma(str, acc) ==
    IF str = << >> THEN {acc}
    ELSE IF Head(str) = "," THEN {acc} \cup SplitComma(Tail(str), << >>)
    ELSE SplitComma(Tail(str), Append(acc, Head(str)))

\* bool(col_forms & FFIEC_031_041_FORMS): a segment is a form of the target
\* set only when it is that form's name and nothing else
OnForm(form_mapping, col_upper) ==
    IF form_mapping = {} THEN FALSE
    ELSE LET forms_str == MappingGet(form_mapping, col_upper)
         IN  IF forms_str = << >> THEN FALSE
             ELSE \E f \in FFIEC_031_041_FORMS : <<f>> \in SplitComma(forms_str, << >>)

\* df[col].notna().any()
HasData(col) == \E r \in 1..Len(col.vals) : col.vals[r] # "NA"

\* a plausible slip, the rule as the caller's comment words it: on the form
\* AND non-null
KeepColumnBoth(col, form_mapping) ==
    \/ Upper(col.name) \in METADATA_COLUMNS
    \/ (OnForm(form_mapping, Upper(col.name)) /\ HasData(col))

\* one pass of the loop body: whether col is appended to cols_to_keep
KeepColumn(col, form_mapping) ==
    \/ Upper(col.name) \in METADATA_COLUMNS
    \/ OnForm(form_mapping, Upper(col.name))
    \/ HasData(col)

\* the loop over df.columns, building cols_to_keep (a list of names)
RECURSIVE ColsToKeep(_, _, _)
ColsToKeep(df, form_mapping, i) ==
    IF i > Len(df) THEN << >>
    ELSE (IF KeepColumn(df[i], form_mapping) THEN <<df[i].name>> ELSE << >>)
         \o ColsToKeep(df, form_mapping, i + 1)

\* df[cols_to_keep] for a table whose column names are distinct
SelectColumns(df, names) ==
    [k \in 1..Len(names) |-> df[CHOOSE i \in 1..Len(df) : df[i].name = names[k]]]

filter_columns(df, form_mapping) ==
    SelectColumns(df, ColsToKeep(df, form_mapping, 1))

(***************************************************************************)
(* Inputs of filter_columns.                                               *)
(***************************************************************************)
\* the largest number of columns and of rows of a table handed to filter_columns
MaxCols == 3
MaxFcRows == 1

FcNames == {"RSSD_ID", "reporting_period", "RCON2170", "RCFD0010"}

\* forms strings: none, '', one foreign form, one target form, a target form
\* after a separator, and a target form after a separator and a blank
FormStrings ==
    { << >>, <<"FR Y-9C">>, <<"FFIEC 031">>,
      <<"FR Y-9C", ",", "FFIEC 041">>, <<"FR Y-9C", ",", " ", "FFIEC 041">> }

\* dictionaries: each data name is missing or mapped to a forms string
FormMappings ==
    { ea \cup eb :
        ea \in { {} } \cup { { <<"RCON2170", f>> } : f \in FormStrings },
        eb \in { {} } \cup { { <<"RCFD0010", f>> } : f \in FormStrings } }

\* sequences of distinct names, of length n
DistinctNameSeqs(n) ==
    { s \in [1..n -> FcNames] : \A i, j \in 1..n : s[i] = s[j] => i = j }

FcTables ==
    UNION { { [i \in 1..n |-> [name |-> names[i], vals |-> cells[i]]] :
                names \in DistinctNameSeqs(n),
                cells \in [1..n -> [1..r -> {"NA", "v"}]] } :
            n \in 0..MaxCols, r \in 0..MaxFcRows }

NoTable == <<[name |-> "(unset)", vals |-> << >>]>>

FcIdle ==
    /\ fcDf = << >>
    /\ fcMapping = {}
    /\ fcOut = << >>

FcInit ==
    /\ fcDf \in FcTables
    /\ fcMapping \in FormMappings
    /\ fcOut = NoTable


(***************************************************************************)
(* The gap check of the corpus summarizer (06_summarize.py, main, the      *)
(* branch for entity subdirectories).                                      *)
(*                                                                         *)
(* A summary row is [entity_type, date]; year and quarter_num are          *)
(* date.dt.year and date.dt.quarter.                                       *)
(***************************************************************************)
EntityOrder == <<"FFIEC_031_041", "FFIEC_002", "FRB_2886b">>

EntityNames == {EntityOrder[i] : i \in 1..Len(EntityOrder)}

DateLess(a, b) ==
    \/ a.year < b.year
    \/ (a.year = b.year /\ a.month < b.month)
    \/ (a.year = b.year /\ a.month = b.month /\ a.day < b.day)

\* sort_values('date') of a set of rows with distinct dates
RECURSIVE SortByDate(_)
SortByDate(rows) ==
    IF rows = {} THEN << >>
    ELSE LET first == CHOOSE r \in rows : \A o \in rows : ~DateLess(o.date, r.date)
         IN  <<first>> \o SortByDate(rows \ {first})

\* a plausible slip: no roll-over of the year after the fourth quarter
ExpectedNextNoRoll(current_year, current_q) ==
    [year |-> current_year, q |-> current_q + 1]

\* "Calculate expected next quarter"
ExpectedNext(current_year, current_q) ==
    IF current_q = 4
    THEN [year |-> current_year + 1, q |-> 1]
    ELSE [year |-> current_year, q |-> current_q + 1]

\* a plausible slip: every missing quarter of a hole is appended, not only
\* the first
RECURSIVE GapsFromEveryMissing(_, _)
GapsFromEveryMissing(entity_data, i) ==
    IF i + 1 > Len(entity_data) THEN << >>
    ELSE LET current == 4 * entity_data[i].date.year + entity_data[i].date.quarter - 1
             next    == 4 * entity_data[i + 1].date.year + entity_data[i + 1].date.quarter - 1
         IN  [k \in 1..(next - current - 1) |->
                [year |-> (current + k) \div 4, q |-> ((current + k) % 4) + 1]]
             \o GapsFromEveryMissing(entity_data, i + 1)

\* for i in range(len(entity_data) - 1): the gaps appended from pair i on
RECURSIVE GapsFrom(_, _)
GapsFrom(entity_data, i) ==
    IF i + 1 > Len(entity_data) THEN << >>
    ELSE LET current_year == entity_data[i].date.year
             current_q    == entity_data[i].date.quarter
             next_year    == entity_data[i + 1].date.year
             next_q       == entity_data[i + 1].date.quarter
             expected     == ExpectedNext(current_year, current_q)
         IN  (IF next_year # expected.year \/ next_q # expected.q
              THEN <<expected>> ELSE << >>)
             \o GapsFrom(entity_data, i + 1)

\* the gaps list of one entity type; empty when it has fewer than two rows
EntityGaps(summary_df, entity_type) ==
    LET entity_data == SortByDate({r \in summary_df : r.entity_type = entity_type})
    IN  IF Len(entity_data) < 2 THEN << >> ELSE GapsFrom(entity_data, 1)

\* all_gaps: only the entity types with a non-empty gaps list get a key;
\* nothing is checked unless the summary has more than one row
AllGaps(summary_df) ==
    IF Cardinality(summary_df) > 1
    THEN { <<e, EntityGaps(summary_df, e)>> :
             e \in {x \in {r.entity_type : r \in summary_df} :
                      EntityGaps(summary_df, x) # << >>} }
    ELSE {}

(***************************************************************************)
(* Inputs of the gap check.                                                *)
(***************************************************************************)
\* the number of consecutive quarters, from 2019Q3 on, the summarized
\* quarters are drawn from
MaxGapQuarters == 5

QuarterEnd(y, q) == Timestamp(y, 3 * q, IF q \in {1, 4} THEN 31 ELSE 30)

GapQuarters ==
    { QuarterEnd((4 * 2019 + 2 + n) \div 4, ((4 * 2019 + 2 + n) % 4) + 1) :
        n \in 0..(MaxGapQuarters - 1) }

SummaryRows == [entity_type : EntityNames, date : GapQuarters]

GapIdle ==
    /\ summaryDf = {}
    /\ gapState = "idle"
    /\ allGaps = {}

GapInit ==
    /\ summaryDf \in SUBSET SummaryRows
    /\ gapState = "input"
    /\ allGaps = {}


(***************************************************************************)
(* process_quarter and main of 04_parse_chicago.py                         *)
(*                                                                         *)
(* A table read from an .xpt file is [has9331, rows]: whether it has an    *)
(* RSSD9331 column, and one RSSD9331 value per row, a set: {} for a        *)
(* missing value, {v} for the value v.  A row of a data frame is           *)
(* [id, code], id being its index in the file.  A file of the output       *)
(* directory is [state, rows], state "absent", "complete" or "partial".    *)
(***************************************************************************)
\* ENTITY_TYPES[entity_type]['rssd9331_values'], with a plausible slip: a
\* value listed under two entity types
Rssd9331ValuesOverlap(entity_type) ==
    CASE entity_type = "FFIEC_031_041" -> {1}
      [] entity_type = "FFIEC_002"     -> {1, 10, 11}
      [] entity_type = "FRB_2886b"     -> {13, 17}

Rssd9331Values(entity_type) ==
    CASE entity_type = "FFIEC_031_041" -> {1}
      [] entity_type = "FFIEC_002"     -> {10, 11}
      [] entity_type = "FRB_2886b"     -> {13, 17}

\* a plausible slip: the cutoff day itself is excluded as well
ExcludedFromCutoff(entity_type, reporting_period) ==
    /\ entity_type = "FFIEC_031_041"
    /\ ~DateLess(reporting_period, Timestamp(2010, 12, 31))

\* entity_type == 'FFIEC_031_041' and reporting_period > pd.Timestamp('2010-12-31')
Excluded(entity_type, reporting_period) ==
    /\ entity_type = "FFIEC_031_041"
    /\ DateLess(Timestamp(2010, 12, 31), reporting_period)

\* output_dir / entity_type / f"{quarter_str}.parquet", where quarter_str is
\* f"{reporting_period.year}Q{reporting_period.quarter}"
OutputPath(entity_type, reporting_period) ==
    <<entity_type, reporting_period.year, reporting_period.quarter>>

AbsentFile  == [state |-> "absent",  rows |-> << >>]
PartialFile == [state |-> "partial", rows |-> << >>]
CompleteFile(rows) == [state |-> "complete", rows |-> rows]

\* output_path.exists(): true of any file at the path, finished or not
Exists(fsIn, path) == fsIn[path].state # "absent"

\* a plausible slip: a missing value taken to match every value list
IsInMissingMatches(code, values) == code = {} \/ code \cap values # {}

\* Series.isin(values) for one cell: a missing value is in no list
IsIn(code, values) == code \cap values # {}

\* the data frame read from the file
DataFrame(table) == [i \in 1..Len(table.rows) |-> [id |-> i, code |-> table.rows[i]]]

\* df[df['RSSD9331'].isin(config['rssd9331_values'])]
RowInEntity(row, entity_type) == IsIn(row.code, Rssd9331Values(entity_type))

RECURSIVE EntityDf(_, _)
EntityDf(df, entity_type) ==
    IF df = << >> THEN << >>
    ELSE (IF RowInEntity(Head(df), entity_type) THEN <<Head(df)>> ELSE << >>)
         \o EntityDf(Tail(df), entity_type)

NoFault == [kind |-> "none", entity |-> "", residue |-> ""]

\* what can go wrong in one call: the read fails with every encoding, or the
\* write of one entity's file raises, leaving the path untouched (nothing
\* was opened) or holding a partial file
Faults ==
    {NoFault, [kind |-> "read", entity |-> "", residue |-> ""]} \cup
    [kind : {"write"}, entity : EntityNames, residue : {"untouched", "partial"}]

\* the loop "Split by entity type and write immediately", from the k-th
\* entity type on; acc is [fs, results, wrote].  An exception leaves the
\* loop: the files written so far stay, the function returns {}.
RECURSIVE SplitAndWrite(_, _, _, _, _)
SplitAndWrite(df, reporting_period, k, fault, acc) ==
    IF k > Len(EntityOrder)
    THEN [fs |-> acc.fs, kind |-> "dict", results |-> acc.results,
          wrote |-> acc.wrote, raised |-> FALSE]
    ELSE LET entity_type == EntityOrder[k]
             entity_df   == EntityDf(df, entity_type)
             output_path == OutputPath(entity_type, reporting_period)
         IN  IF Excluded(entity_type, reporting_period) \/ Len(entity_df) = 0
             THEN SplitAndWrite(df, reporting_period, k + 1, fault, acc)
             ELSE IF fault.kind = "write" /\ fault.entity = entity_type
             THEN IF fault.residue = "partial"
                  THEN [fs |-> [acc.fs EXCEPT ![output_path] = PartialFile],
                        kind |-> "dict", results |-> {},
                        wrote |-> acc.wrote \cup {entity_type}, raised |-> TRUE]
                  ELSE [fs |-> acc.fs, kind |-> "dict", results |-> {},
                        wrote |-> acc.wrote, raised |-> TRUE]
             ELSE SplitAndWrite(df, reporting_period, k + 1, fault,
                    [fs      |-> [acc.fs EXCEPT ![output_path] = CompleteFile(entity_df)],
                     results |-> acc.results \cup {<<entity_type, Len(entity_df)>>},
                     wrote   |-> acc.wrote \cup {entity_type}])

\* "Check if all output files already exist"
AllExist(fsIn, reporting_period) ==
    \A entity_type \in EntityNames :
        \/ Excluded(entity_type, reporting_period)
        \/ Exists(fsIn, OutputPath(entity_type, reporting_period))

\* a plausible slip: the RSSD9331 column is not looked for, and the split
\* raises on the missing column
process_quarterNoColumnCheck(fsIn, table, reporting_period, forceArg, fault) ==
    IF ~forceArg /\ AllExist(fsIn, reporting_period)
    THEN [fs |-> fsIn, kind |-> "skipped", results |-> {}, wrote |-> {}, raised |-> FALSE]
    ELSE IF fault.kind = "read" \/ ~table.has9331
    THEN [fs |-> fsIn, kind |-> "dict", results |-> {}, wrote |-> {}, raised |-> TRUE]
    ELSE SplitAndWrite(DataFrame(table), reporting_period, 1, fault,
                       [fs |-> fsIn, results |-> {}, wrote |-> {}])

\* process_quarter: the directory it leaves and what it returns, 'skipped'
\* or a dict entity_type -> record count (a set of pairs)
process_quarter(fsIn, table, reporting_period, forceArg, fault) ==
    IF ~forceArg /\ AllExist(fsIn, reporting_period)
    THEN [fs |-> fsIn, kind |-> "skipped", results |-> {}, wrote |-> {}, raised |-> FALSE]
    ELSE IF fault.kind = "read"
    THEN [fs |-> fsIn, kind |-> "dict", results |-> {}, wrote |-> {}, raised |-> TRUE]
    ELSE IF ~table.has9331
    THEN [fs |-> fsIn, kind |-> "dict", results |-> {}, wrote |-> {}, raised |-> FALSE]
    ELSE SplitAndWrite(DataFrame(table), reporting_period, 1, fault,
                       [fs |-> fsIn, results |-> {}, wrote |-> {}])

\* filtered_files.sort(key=lambda x: x[1])
RECURSIVE SortPeriods(_)
SortPeriods(periods) ==
    IF periods = {} THEN << >>
    ELSE LET first == CHOOSE p \in periods : \A o \in periods : ~DateLess(o, p)
         IN  <<first>> \o SortPeriods(periods \ {first})

ZeroStats == [e \in EntityNames |-> [processed |-> 0, total_records |-> 0, skipped |-> 0]]

\* the body of "for xpt_file, reporting_period in filtered_files"
UpdateStats(st, r) ==
    IF r.kind = "skipped"
    THEN [e \in EntityNames |-> [st[e] EXCEPT !.skipped = @ + 1]]
    ELSE [e \in EntityNames |->
            IF \E kv \in r.results : kv[1] = e
            THEN [st[e] EXCEPT
                    !.processed = @ + 1,
                    !.total_records = @ + (CHOOSE kv \in r.results : kv[1] = e)[2]]
            ELSE st[e]]

(***************************************************************************)
(* Inputs of the Chicago pipeline: one .xpt file per period, for one or    *)
(* two periods, one on each side of the 2010-12-31 cutoff.                 *)
(***************************************************************************)
\* the largest number of rows of the table of a single input file
MaxRows == 2

ChiPeriods == {Timestamp(2010, 12, 31), Timestamp(2011, 3, 31)}

RowCodes == { {}, {1}, {5}, {10}, {11}, {13}, {17} }

XptTables(n) ==
    { [has9331 |-> TRUE, rows |-> rows] : rows \in UNION { [1..k -> RowCodes] : k \in 0..n } }
    \cup { [has9331 |-> FALSE, rows |-> <<{}>>] }

\* the tables tried when there are two input files: no RSSD9331 column, no
\* row, one row of a category, one row of no category, rows of two categories
BatchTables ==
    { [has9331 |-> FALSE, rows |-> <<{}>>],
      [has9331 |-> TRUE, rows |-> << >>],
      [has9331 |-> TRUE, rows |-> <<{1}>>],
      [has9331 |-> TRUE, rows |-> <<{5}>>],
      [has9331 |-> TRUE, rows |-> <<{10}, {17}>>] }

XptInputs ==
    { [p \in {q} |-> t] : q \in ChiPeriods, t \in XptTables(MaxRows) }
    \cup [ChiPeriods -> BatchTables]

ChiPaths == { OutputPath(e, p) : e \in EntityNames, p \in ChiPeriods }

NoCall ==
    [kind |-> "none", period |-> Timestamp(2010, 12, 31), force |-> FALSE,
     faulted |-> FALSE, existed |-> {}, wrote |-> {}, results |-> {}, raised |-> FALSE,
     readFailed |-> FALSE]

FirstHist(fs0) ==
    [ran |-> FALSE, prevClean |-> FALSE, prevProcessed |-> {},
     fsStart |-> fs0, clean |-> TRUE, reports |-> {}, processed |-> {}]

ChiIdle ==
    /\ xptTable = << >>
    /\ fs = << >>
    /\ force = FALSE
    /\ chiPc = "off"
    /\ todo = << >>
    /\ stats = ZeroStats
    /\ lastCall = NoCall
    /\ runHist = FirstHist(<< >>)

\* before the first run the output directory is empty
ChiInit ==
    /\ xptTable \in XptInputs
    /\ fs = [path \in ChiPaths |-> AbsentFile]
    /\ force = FALSE
    /\ chiPc = "idle"
    /\ todo = << >>
    /\ stats = ZeroStats
    /\ lastCall = NoCall
    /\ runHist = FirstHist([path \in ChiPaths |-> AbsentFile])

(***************************************************************************)
(* write_parquet_with_metadata (04_parse_chicago.py, 05_parse_ffiec.py)    *)
(*                                                                         *)
(* A table is a sequence of columns [name, vals], as for filter_columns.   *)
(* A written file is [state, fields]; a field is [name, metadata, vals],   *)
(* metadata a set of <<key, value>> pairs.                                 *)
(***************************************************************************)
\* descriptions.get(key, '')
DictGet(dict, key) ==
    IF \E kv \in dict : kv[1] = key
    THEN (CHOOSE kv \in dict : kv[1] = key)[2]
    ELSE ""

\* pa.Table.from_pandas(df, preserve_index=False): one field per column, in
\* column order; a field made from a data frame column carries no metadata
FromPandas(df) ==
    [i \in 1..Len(df) |-> [name |-> df[i].name, metadata |-> {}, vals |-> df[i].vals]]

\* new_metadata.update(field.metadata): the keys of field.metadata win
MetadataUpdate(new_metadata, field_metadata) ==
    {kv \in new_metadata : ~\E o \in field_metadata : o[1] = kv[1]} \cup field_metadata

\* a plausible slip: the dictionary looked up with the name as spelled
NewFieldExactCase(field, descriptions) ==
    LET desc == DictGet(descriptions, field.name)
    IN  IF desc # ""
        THEN [field EXCEPT
                !.metadata = MetadataUpdate({<<"description", desc>>}, field.metadata)]
        ELSE field

\* the loop body of "Build new schema with descriptions"
NewField(field, descriptions) ==
    LET desc == DictGet(descriptions, Upper(field.name))
    IN  IF desc # ""
        THEN [field EXCEPT
                !.metadata = MetadataUpdate({<<"description", desc>>}, field.metadata)]
        ELSE field

NoFile == [state |-> "absent", fields |-> << >>]

\* the file pq.write_table leaves at output_path when it completes
write_parquet_with_metadata(df, descriptions) ==
    LET table == FromPandas(df)
    IN  [state  |-> "complete",
         fields |-> [i \in 1..Len(table) |-> NewField(table[i], descriptions)]]

(***************************************************************************)
(* Inputs of the writer.                                                   *)
(***************************************************************************)
\* the largest number of columns of a table handed to the writer
MaxWrCols == 2

WrNames == {"RSSD_ID", "rcon2170", "RCFD0010"}

WrTables ==
    UNION { { [i \in 1..n |-> [name |-> names[i], vals |-> cells[i]]] :
                names \in { s \in [1..n -> WrNames] : \A i, j \in 1..n : s[i] = s[j] => i = j },
                cells \in [1..n -> [1..r -> {"NA", "v"}]] } :
            n \in 0..MaxWrCols, r \in 0..MaxFcRows }

\* dictionaries: each variable is missing, or has an empty or a real description
WrDictionaries ==
    { ea \cup eb :
        ea \in { {} } \cup { { <<"RCON2170", d>> } : d \in {"", "TOTAL ASSETS"} },
        eb \in { {} } \cup { { <<"RCFD0010", d>> } : d \in {"", "CASH"} } }

WrIdle ==
    /\ wrDf = << >>
    /\ wrDescriptions = {}
    /\ wrFile = [state |-> "off", fields |-> << >>]

WrInit ==
    /\ wrDf \in WrTables
    /\ wrDescriptions \in WrDictionaries
    /\ wrFile = NoFile

(***************************************************************************)
(* parse_zip_file (05_parse_ffiec.py)                                      *)
(*                                                                         *)
(* A member of an archive is [name, ext, df]: df is what parse_text_content*)
(* returned for its content, a table with an RSSD_ID column of integers,   *)
(* or NoData for None.  A missing cell is "NA".                            *)
(***************************************************************************)
NoData == <<[name |-> "(None)", vals |-> << >>]>>

\* df.empty: no column or no row
IsEmpty(df) == df = << >> \/ df[1].vals = << >>

ColumnNames(df) == {df[i].name : i \in 1..Len(df)}

\* the column of that name (the first, should the name be repeated)
ColumnOf(df, name) ==
    df[CHOOSE i \in 1..Len(df) : df[i].name = name /\ \A j \in 1..(i - 1) : df[j].name # name]

\* the join keys of an outer merge, in ascending order
RECURSIVE SortedKeys(_)
SortedKeys(keys) ==
    IF keys = {} THEN << >>
    ELSE LET least == CHOOSE k \in keys : \A o \in keys : k <= o
         IN  <<least>> \o SortedKeys(keys \ {least})

\* the indices of the rows of ids that hold key, in row order
RECURSIVE RowsWithKey(_, _, _)
RowsWithKey(ids, key, i) ==
    IF i > Len(ids) THEN << >>
    ELSE (IF ids[i] = key THEN <<i>> ELSE << >>) \o RowsWithKey(ids, key, i + 1)

\* every left row index paired with every right row index, left-major
RECURSIVE RowProduct(_, _)
RowProduct(li, rj) ==
    IF li = << >> THEN << >>
    ELSE [k \in 1..Len(rj) |-> <<Head(li), rj[k]>>] \o RowProduct(Tail(li), rj)

\* the row pairs <<left row, right row>> of an outer merge, key by key; 0
\* stands for no row on that side
RECURSIVE MergePairs(_, _, _)
MergePairs(lids, rids, keys) ==
    IF keys = << >> THEN << >>
    ELSE LET li == RowsWithKey(lids, Head(keys), 1)
             rj == RowsWithKey(rids, Head(keys), 1)
             here == IF li = << >> THEN [k \in 1..Len(rj) |-> <<0, rj[k]>>]
                     ELSE IF rj = << >> THEN [k \in 1..Len(li) |-> <<li[k], 0>>]
                     ELSE RowProduct(li, rj)
         IN  here \o MergePairs(lids, rids, Tail(keys))

RECURSIVE DropColumn(_, _)
DropColumn(df, name) ==
    IF df = << >> THEN << >>
    ELSE (IF Head(df).name = name THEN << >> ELSE <<Head(df)>>) \o DropColumn(Tail(df), name)

\* result.merge(df, on='RSSD_ID', how='outer', suffixes=('', '_dup'))
MergeOuter(result, df) ==
    LET lids  == ColumnOf(result, "RSSD_ID").vals
        rids  == ColumnOf(df, "RSSD_ID").vals
        keys  == SortedKeys({lids[i] : i \in 1..Len(lids)} \cup {rids[i] : i \in 1..Len(rids)})
        pairs == MergePairs(lids, rids, keys)
        KeyOf(p) == IF p[1] # 0 THEN lids[p[1]] ELSE rids[p[2]]
        rest  == DropColumn(df, "RSSD_ID")
        left  == [c \in 1..Len(result) |->
                    [name |-> result[c].name,
                     vals |-> [k \in 1..Len(pairs) |->
                                 IF result[c].name = "RSSD_ID" THEN KeyOf(pairs[k])
                                 ELSE IF pairs[k][1] = 0 THEN "NA"
                                 ELSE result[c].vals[pairs[k][1]]]]]
        right == [c \in 1..Len(rest) |->
                    [name |-> IF rest[c].name \in ColumnNames(result)
                              THEN rest[c].name \o "_dup" ELSE rest[c].name,
                     vals |-> [k \in 1..Len(pairs) |->
                                 IF pairs[k][2] = 0 THEN "NA"
                                 ELSE rest[c].vals[pairs[k][2]]]]]
    IN  left \o right

\* the column names of the modelled archives: an identifier column and item
\* columns, none of which ends in "_dup" itself
ZipColumnNames == {"RSSD_ID", "RCON2170", "RCFD0010", "rcon2170", "IDRSSD"}

\* c.endswith('_dup')
EndsWithDup(name) == \E base \in ZipColumnNames : name = base \o "_dup"

\* result.drop(columns=dup_cols)
RECURSIVE DropDupColumns(_)
DropDupColumns(df) ==
    IF df = << >> THEN << >>
    ELSE (IF EndsWithDup(Head(df).name) THEN << >> ELSE <<Head(df)>>)
         \o DropDupColumns(Tail(df))

\* a plausible slip: the later member's copy of a repeated column is kept in
\* place of the earlier one
MergeStepKeepLast(result, df) ==
    LET shared == {n \in ColumnNames(df) \ {"RSSD_ID"} : n \in ColumnNames(result)}
        merged == MergeOuter(result, df)
    IN  [c \in 1..Len(DropDupColumns(merged)) |->
            LET col == DropDupColumns(merged)[c]
            IN  IF col.name \in shared
                THEN [col EXCEPT !.vals = ColumnOf(merged, col.name \o "_dup").vals]
                ELSE col]

\* one pass of "for df in all_data[1:]"
MergeStep(result, df) == DropDupColumns(MergeOuter(result, df))

\* all_data: the parsed .txt and .csv members that are neither None nor empty
RECURSIVE AllData(_)
AllData(members) ==
    IF members = << >> THEN << >>
    ELSE LET m == Head(members)
         IN  (IF m.ext \in {".txt", ".csv"} /\ m.df # NoData /\ ~IsEmpty(m.df)
              THEN <<m.df>> ELSE << >>) \o AllData(Tail(members))

RECURSIVE MergeAll(_, _)
MergeAll(result, others) ==
    IF others = << >> THEN result
    ELSE MergeAll(MergeStep(result, Head(others)), Tail(others))

parse_zip_file(members) ==
    LET all_data == AllData(members)
    IN  IF all_data = << >> THEN NoData
        ELSE MergeAll(all_data[1], Tail(all_data))

(***************************************************************************)
(* Inputs of parse_zip_file.                                               *)
(***************************************************************************)
\* the largest number of members of an archive
MaxMembers == 3

Column(name, vals) == [name |-> name, vals |-> vals]

MemberPlain ==
    [ext |-> ".txt", df |-> <<Column("RSSD_ID", <<1>>), Column("RCON2170", <<"a">>)>>]
MemberWide ==
    [ext |-> ".txt", df |-> <<Column("RSSD_ID", <<1, 2>>), Column("RCON2170", <<"b", "b">>),
                              Column("RCFD0010", <<"b", "NA">>)>>]
MemberOther ==
    [ext |-> ".txt", df |-> <<Column("RSSD_ID", <<2>>), Column("RCFD0010", <<"c">>)>>]
\* a member that lists identifier 1 twice
MemberRepeat ==
    [ext |-> ".txt", df |-> <<Column("RSSD_ID", <<1, 1>>), Column("RCON2170", <<"d", "e">>)>>]
MemberEmpty ==
    [ext |-> ".txt", df |-> <<Column("RSSD_ID", << >>), Column("RCON2170", << >>)>>]
\* a member parse_text_content could not parse
MemberNone == [ext |-> ".txt", df |-> NoData]
MemberCsv ==
    [ext |-> ".csv", df |-> <<Column("RSSD_ID", <<2>>), Column("RCON2170", <<"f">>)>>]
\* a member that is no data file
MemberXml ==
    [ext |-> ".xml", df |-> <<Column("RSSD_ID", <<3>>), Column("RCON2170", <<"g">>)>>]

ZipMemberChoices ==
    { MemberPlain, MemberWide, MemberOther, MemberRepeat, MemberEmpty, MemberNone,
      MemberCsv, MemberXml }

ZipArchives == UNION { [1..n -> ZipMemberChoices] : n \in 0..MaxMembers }

ZipIdle ==
    /\ zipMembers = << >>
    /\ zipResult = << >>

ZipInit ==
    /\ zipMembers \in ZipArchives
    /\ zipResult = NoTable

(***************************************************************************)
(* main (05_parse_ffiec.py)                                                *)
(*                                                                         *)
(* An input file is [name, members, fault]: members is the content, the    *)
(* members of an archive or the one table of a text file; fault is what    *)
(* goes wrong while the file is processed: "none", "parse" (reading the    *)
(* file raises) or "write" (writing the table raises).  The output         *)
(* directory maps <<year, quarter>> to the file {quarter_str}.parquet.     *)
(***************************************************************************)
FfiecStem == <<"F", "F", "I", "E", "C", "_">>

\* the modelled input names, in the order files_to_process.sort() gives them
BulkNameOrder ==
    << FfiecStem \o D2(3) \o D2(31) \o D2(20) \o D2(24) \o <<".", "z", "i", "p">>,
       FfiecStem \o D2(6) \o D2(30) \o D2(20) \o D2(24) \o <<".", "t", "x", "t">>,
       FfiecStem \o D2(20) \o D2(24) \o D2(3) \o D2(31) \o <<".", "t", "x", "t">>,
       <<"r", "e", "a", "d", "m", "e", ".", "t", "x", "t">> >>

NameRank(name) == CHOOSE i \in 1..Len(BulkNameOrder) : BulkNameOrder[i] = name

\* files_to_process.sort() on a set of files with distinct names
RECURSIVE SortFiles(_)
SortFiles(files) ==
    IF files = {} THEN << >>
    ELSE LET first == CHOOSE f \in files :
                          \A o \in files : NameRank(f.name) <= NameRank(o.name)
         IN  <<first>> \o SortFiles(files \ {first})

\* file_path.suffix.lower() == '.zip'
IsZip(name) ==
    /\ Len(name) >= 4
    /\ Lower(SubSeq(name, Len(name) - 3, Len(name))) = <<".", "z", "i", "p">>

\* parse_text_file: the content of the file handed to parse_text_content
parse_text_file(file) == file.members[1].df

parse_bulk_file(file) ==
    IF IsZip(file.name) THEN parse_zip_file(file.members) ELSE parse_text_file(file)

\* the item names of the modelled tables, as sorted() orders them
MdrmOrder == <<"IDRSSD", "RCFD0010", "RCON2170">>

RECURSIVE SortedColumns(_, _)
SortedColumns(df, names) ==
    IF names = << >> THEN << >>
    ELSE (IF Head(names) \in ColumnNames(df) THEN <<ColumnOf(df, Head(names))>> ELSE << >>)
         \o SortedColumns(df, Tail(names))

\* df['REPORTING_PERIOD'] = reporting_period; upper-case names; RSSD_ID and
\* REPORTING_PERIOD first, the other columns in sorted order
convert_to_standard_format(df, reporting_period) ==
    LET rows   == Len(df[1].vals)
        period == [name |-> "REPORTING_PERIOD", vals |-> [r \in 1..rows |-> reporting_period]]
        added  == IF "REPORTING_PERIOD" \in ColumnNames(df)
                  THEN [c \in 1..Len(df) |->
                          IF df[c].name = "REPORTING_PERIOD" THEN period ELSE df[c]]
                  ELSE Append(df, period)
        upper  == [c \in 1..Len(added) |-> [added[c] EXCEPT !.name = Upper(added[c].name)]]
    IN  <<ColumnOf(upper, "RSSD_ID"), ColumnOf(upper, "REPORTING_PERIOD")>>
        \o SortedColumns(upper, MdrmOrder)

\* pd.Timestamp(year=year, month=quarter*3, day=1)
ReportingTimestamp(year, quarter) == Timestamp(year, quarter * 3, 1)

\* what load_data_dictionary() returned
BulkFormMapping == { <<"RCON2170", <<"FFIEC 031">>>>, <<"RCFD0010", <<"FR Y-9C">>>> }
BulkDescriptions == { <<"RCON2170", "TOTAL ASSETS">> }

\* the file the loop body writes for a parsed table
BulkOutput(df, year, quarter) ==
    write_parquet_with_metadata(
        filter_columns(convert_to_standard_format(df, ReportingTimestamp(year, quarter)),
                       BulkFormMapping),
        BulkDescriptions)

BulkPartialFile == [state |-> "partial", fields |-> << >>]

ZeroCounts == [processed |-> 0, skipped |-> 0, error |-> 0]

\* one pass of "for file_path in files_to_process": the directory and the
\* counters after it, and what it did with the file; partial tells whether
\* a failed write leaves a partial file behind
BulkIteration(file, fsIn, force_, counts, partial) ==
    LET q    == extract_quarter_from_filename(file.name)
        path == <<q.year, q.quarter>>
        df   == parse_bulk_file(file)
    IN  IF q = NoPeriod
        THEN [fs |-> fsIn, counts |-> [counts EXCEPT !.error = @ + 1],
              outcome |-> "error", wrote |-> {}]
        ELSE IF fsIn[path].state # "absent" /\ ~force_
        THEN [fs |-> fsIn, counts |-> [counts EXCEPT !.skipped = @ + 1],
              outcome |-> "skipped", wrote |-> {}]
        ELSE IF file.fault = "parse" \/ df = NoData \/ IsEmpty(df)
        THEN [fs |-> fsIn, counts |-> [counts EXCEPT !.error = @ + 1],
              outcome |-> "error", wrote |-> {}]
        ELSE IF file.fault = "write"
        THEN [fs |-> IF partial THEN [fsIn EXCEPT ![path] = BulkPartialFile] ELSE fsIn,
              counts |-> [counts EXCEPT !.error = @ + 1], outcome |-> "error", wrote |-> {}]
        ELSE [fs |-> [fsIn EXCEPT ![path] = BulkOutput(df, q.year, q.quarter)],
              counts |-> [counts EXCEPT !.processed = @ + 1],
              outcome |-> "processed", wrote |-> {path}]

(***************************************************************************)
(* Inputs of the FFIEC pipeline.                                           *)
(***************************************************************************)
\* the largest number of input files of a run
MaxBulkFiles == 2

BulkFaults == {"none", "parse", "write"}

BulkFileChoices ==
    { [name |-> BulkNameOrder[1], members |-> m, fault |-> f] :
        m \in { <<MemberPlain, MemberWide>>, <<MemberRepeat, MemberWide>>, <<MemberNone>> },
        f \in BulkFaults }
    \cup
    { [name |-> BulkNameOrder[i], members |-> m, fault |-> f] :
        i \in {2, 3}, m \in { <<MemberPlain>>, <<MemberRepeat>> }, f \in BulkFaults }
    \cup
    { [name |-> BulkNameOrder[4], members |-> <<MemberPlain>>, fault |-> "none"] }

\* the subsets of choices with at most n files
RECURSIVE FileSets(_, _)
FileSets(choices, n) ==
    IF n = 0 THEN { {} }
    ELSE FileSets(choices, n - 1)
         \cup { fl \cup {f} : fl \in FileSets(choices, n - 1), f \in choices }

\* the files of an input directory: no two share a name
BulkBatches ==
    { SortFiles(files) :
        files \in { fl \in FileSets(BulkFileChoices, MaxBulkFiles) :
                      \A f, g \in fl : f.name = g.name => f = g } }

BulkQuarters == { <<2024, 1>>, <<2024, 2>> }

\* an output file left by an earlier run
BulkPriorFile(path) == BulkOutput(MemberPlain.df, path[1], path[2])

BulkDirectories ==
    { [path \in BulkQuarters |-> IF path \in present THEN BulkPriorFile(path) ELSE NoFile] :
        present \in SUBSET BulkQuarters }

BulkIdle ==
    /\ bulkFiles = << >>
    /\ bulkForce = FALSE
    /\ bulkFs = << >>
    /\ bulkPc = "off"
    /\ bulkTodo = 0
    /\ bulkCounts = ZeroCounts
    /\ bulkExit = "off"
    /\ bulkHist = [attempted |-> {}, outcomes |-> {}, wrote |-> {}, summary |-> FALSE]

BulkInit ==
    /\ bulkFiles \in BulkBatches
    /\ bulkForce \in BOOLEAN
    /\ bulkFs \in BulkDirectories
    /\ bulkPc = "start"
    /\ bulkTodo = 1
    /\ bulkCounts = ZeroCounts
    /\ bulkExit = "running"
    /\ bulkHist = [attempted |-> {}, outcomes |-> {}, wrote |-> {}, summary |-> FALSE]

(***************************************************************************)
(* extract_raw_quarter, process_file_wrapper and main (parse_chicago.py)   *)
(*                                                                         *)
(* An input file is [name, attempts, write]: attempts[i] is what reading   *)
(* the file with the i-th encoding does: "ok", "decode" (UnicodeDecodeError*)
(* or ValueError) or "other" (any other exception); write is what          *)
(* df.to_parquet does: "ok", or it raises leaving the path "untouched" or  *)
(* holding a "partial" file.                                               *)
(***************************************************************************)
\* encodings_to_try
Encodings == <<"default", "latin1", "cp1252", "iso-8859-1">>

\* the loop "for encoding in encodings_to_try" from the i-th encoding on:
\* whether it raised, the index of the encoding whose table is used (0 for
\* none) and the number of encodings tried
RECURSIVE TryEncodings(_, _)
TryEncodings(attempts, i) ==
    IF attempts[i] = "ok" THEN [raised |-> FALSE, used |-> i, tried |-> i]
    ELSE IF attempts[i] = "decode" /\ i < Len(Encodings) THEN TryEncodings(attempts, i + 1)
    ELSE [raised |-> TRUE, used |-> 0, tried |-> i]

\* extract_raw_quarter: the index of the encoding whose table is returned,
\* 0 for None
extract_raw_quarter(file) ==
    LET read == TryEncodings(file.attempts, 1)
    IN  IF read.raised THEN 0 ELSE read.used

RawAbsent == [state |-> "absent", encoding |-> 0]

\* df.to_parquet(output_path, ...) for a table read with the given encoding
ToParquet(fsIn, path, encoding, write) ==
    IF write = "ok" THEN [fsIn EXCEPT ![path] = [state |-> "complete", encoding |-> encoding]]
    ELSE IF write = "partial" THEN [fsIn EXCEPT ![path] = [state |-> "partial", encoding |-> 0]]
    ELSE fsIn

\* reporting_period is outside the date filters
OutsideDates(reporting_period, start_date, end_date) ==
    \/ (start_date # NoPeriod /\ DateLess(reporting_period, start_date))
    \/ (end_date # NoPeriod /\ DateLess(end_date, reporting_period))

\* what is done with one file up to the write, in either mode: "skipped",
\* "error", or "write" when a table was read and is to be written
RawBeforeWrite(file, start_date, end_date) ==
    LET reporting_period == infer_reporting_period_from_filename(file.name)
    IN  IF reporting_period = NoPeriod THEN "skipped"
        ELSE IF OutsideDates(reporting_period, start_date, end_date) THEN "skipped"
        ELSE IF extract_raw_quarter(file) = 0 THEN "error"
        ELSE "write"

RawPath(file) ==
    LET reporting_period == infer_reporting_period_from_filename(file.name)
    IN  <<reporting_period.year, reporting_period.quarter>>

\* history: the file, with the path it writes, when its processing reaches
\* df.to_parquet and that call creates or replaces the file at the path
RawWriter(file, i, start_date, end_date) ==
    IF RawBeforeWrite(file, start_date, end_date) = "write" /\ file.write # "untouched"
    THEN {<<RawPath(file), i>>}
    ELSE {}

\* process_file_wrapper: the directory it leaves and the status it returns
process_file_wrapper(file, fsIn, start_date, end_date) ==
    LET before == RawBeforeWrite(file, start_date, end_date)
    IN  IF before # "write" THEN [fs |-> fsIn, status |-> before]
        ELSE [fs |-> ToParquet(fsIn, RawPath(file), extract_raw_quarter(file), file.write),
              status |-> IF file.write = "ok" THEN "success" ELSE "error"]

\* the body of the sequential loop: no try surrounds df.to_parquet, so a
\* failing write raises out of the loop
SequentialBody(file, fsIn, start_date, end_date) ==
    LET before == RawBeforeWrite(file, start_date, end_date)
    IN  IF before # "write" THEN [fs |-> fsIn, status |-> before, raised |-> FALSE]
        ELSE [fs |-> ToParquet(fsIn, RawPath(file), extract_raw_quarter(file), file.write),
              status |-> IF file.write = "ok" THEN "success" ELSE "none",
              raised |-> file.write # "ok"]

\* the counters after a file of the given status
CountStatus(counts, status) ==
    IF status = "success" THEN [counts EXCEPT !.processed = @ + 1]
    ELSE IF status = "skipped" THEN [counts EXCEPT !.skipped = @ + 1]
    ELSE IF status = "error" THEN [counts EXCEPT !.error = @ + 1]
    ELSE counts

(***************************************************************************)
(* Inputs of the raw extraction.                                           *)
(***************************************************************************)
\* the largest number of input files of a run
MaxRawFiles == 2

\* the modelled input names, in sorted() order
RawNameOrder ==
    << <<"c", "a", "l", "l">> \o D2(24) \o D2(3) \o <<".", "x", "p", "t">>,
       <<"c", "a", "l", "l">> \o D2(24) \o D2(6) \o <<".", "x", "p", "t">>,
       <<"c", "a", "l", "p">> \o D2(24) \o D2(3) \o <<".", "x", "p", "t">>,
       <<"r", "e", "a", "d", "m", "e", ".", "x", "p", "t">> >>

RawRank(name) == CHOOSE i \in 1..Len(RawNameOrder) : RawNameOrder[i] = name

\* sorted(input_dir.glob('*.xpt')) on a set of files with distinct names
RECURSIVE SortXpt(_)
SortXpt(files) ==
    IF files = {} THEN << >>
    ELSE LET first == CHOOSE f \in files : \A o \in files : RawRank(f.name) <= RawRank(o.name)
         IN  <<first>> \o SortXpt(files \ {first})

EncodingRuns ==
    { <<"ok", "ok", "ok", "ok">>,
      <<"decode", "ok", "ok", "ok">>,
      <<"decode", "decode", "decode", "ok">>,
      <<"decode", "decode", "decode", "decode">>,
      <<"decode", "other", "ok", "ok">>,
      <<"decode", "decode", "decode", "other">> }

RawFileChoices ==
    { [name |-> RawNameOrder[i], attempts |-> a, write |-> w] :
        i \in {1, 2}, a \in EncodingRuns, w \in {"ok", "untouched", "partial"} }
    \cup { [name |-> RawNameOrder[3], attempts |-> <<"ok", "ok", "ok", "ok">>, write |-> w] :
              w \in {"ok", "partial"} }
    \cup { [name |-> RawNameOrder[4], attempts |-> <<"ok", "ok", "ok", "ok">>, write |-> "ok"] }

RawBatches ==
    { SortXpt(files) :
        files \in { fl \in FileSets(RawFileChoices, MaxRawFiles) :
                      \A f, g \in fl : f.name = g.name => f = g } }

RawDateFilters == {NoPeriod, Timestamp(2024, 4, 1)}

RawQuarters == { <<2024, 1>>, <<2024, 2>> }

RawIdle ==
    /\ rawFiles = << >>
    /\ rawParallel = FALSE
    /\ rawStartDate = Off
    /\ rawEndDate = Off
    /\ rawFs = << >>
    /\ rawPc = "off"
    /\ rawPending = {}
    /\ rawCounts = ZeroCounts
    /\ rawExit = "off"
    /\ rawHist = [attempted |-> {}, writers |-> {}, summary |-> FALSE]

RawInit ==
    /\ rawFiles \in RawBatches
    /\ rawParallel \in BOOLEAN
    /\ rawStartDate \in RawDateFilters
    /\ rawEndDate \in RawDateFilters
    /\ rawFs = [path \in RawQuarters |-> RawAbsent]
    /\ rawPc = "start"
    /\ rawPending = 1..Len(rawFiles)
    /\ rawCounts = ZeroCounts
    /\ rawExit = "running"
    /\ rawHist = [attempted |-> {}, writers |-> {}, summary |-> FALSE]

(***************************************************************************)
(* parse_dictionary (03_parse_dictionary.py)                               *)
(*                                                                         *)
(* A row of MDRM.csv is [mnemonic, item, end, desc], all as read: end is   *)
(* the text of the end date cell, desc the text of the item name cell.     *)
(* A parsed date is {} for NaT and {year} for a date.                      *)
(***************************************************************************)
CALL_REPORT_PREFIXES == {"RCON", "RCFD", "RIAD", "RCFA", "RCFN", "RCFW", "RCOA", "RCOW"}

\* pd.to_datetime(..., errors='coerce', format='mixed') on the modelled cells:
\* an empty or unparsable cell gives NaT
ToDatetime(text) ==
    CASE text = "12/31/2010" -> {2010}
      [] text = "12/31/2020" -> {2020}
      [] OTHER               -> {}

\* the column _end_date of a row
EndDate(row, end_date_col) == IF end_date_col THEN ToDatetime(row.end) ELSE {}

\* the column _full_variable of a row
FullVariable(row) == row.mnemonic \o row.item

\* clean_description on the modelled cells: white space is normalised and
\* stripped
clean_description(desc) ==
    CASE desc = "  "              -> ""
      [] desc = " TOTAL  ASSETS " -> "TOTAL ASSETS"
      [] OTHER                    -> desc

YearOf(date) == CHOOSE y \in date : TRUE

\* a plausible slip: na_position='last'
MayPrecedeNaLast(a, b) == b = {} \/ (a # {} /\ YearOf(a) >= YearOf(b))

\* sort_values('_end_date', ascending=False, na_position='first'): a row
\* with date a may stand before a row with date b
MayPrecede(a, b) == a = {} \/ (b # {} /\ YearOf(a) >= YearOf(b))

\* the orders sort_values may give the rows: the order of rows with equal
\* dates is not fixed by the sort
SortedOrders(rows, end_date_col) ==
    { p \in [1..Len(rows) -> 1..Len(rows)] :
        /\ \A i, j \in 1..Len(rows) : p[i] = p[j] => i = j
        /\ \A i, j \in 1..Len(rows) :
              i < j => MayPrecede(EndDate(rows[p[i]], end_date_col),
                                  EndDate(rows[p[j]], end_date_col)) }

\* df[mask]: the rows whose mnemonic is a Call Report prefix
RECURSIVE FilterPrefixes(_)
FilterPrefixes(rows) ==
    IF rows = << >> THEN << >>
    ELSE (IF Head(rows).mnemonic \in CALL_REPORT_PREFIXES THEN <<Head(rows)>> ELSE << >>)
         \o FilterPrefixes(Tail(rows))

\* drop_duplicates(subset=['_full_variable'], keep='first'); seen holds the
\* variables met so far
RECURSIVE DropDuplicates(_, _)
DropDuplicates(rows, seen) ==
    IF rows = << >> THEN << >>
    ELSE IF FullVariable(Head(rows)) \in seen THEN DropDuplicates(Tail(rows), seen)
    ELSE <<Head(rows)>> \o DropDuplicates(Tail(rows), seen \cup {FullVariable(Head(rows))})

\* output_df before the sort: Variable upper-cased, Description cleaned,
\* rows with an empty description removed
RECURSIVE OutputRows(_)
OutputRows(rows) ==
    IF rows = << >> THEN << >>
    ELSE (IF clean_description(Head(rows).desc) # ""
          THEN <<[Variable |-> Upper(FullVariable(Head(rows))),
                  Description |-> clean_description(Head(rows).desc)]>>
          ELSE << >>) \o OutputRows(Tail(rows))

\* the modelled variable names, in sort order
VariableOrder == <<"RCFD2170", "RCON0010", "RCON2170">>

RECURSIVE EntriesNamed(_, _)
EntriesNamed(entries, name) ==
    IF entries = << >> THEN << >>
    ELSE (IF Head(entries).Variable = name THEN <<Head(entries)>> ELSE << >>)
         \o EntriesNamed(Tail(entries), name)

\* output_df.sort_values('Variable')
RECURSIVE SortByVariable(_, _)
SortByVariable(entries, k) ==
    IF k > Len(VariableOrder) THEN << >>
    ELSE EntriesNamed(entries, VariableOrder[k]) \o SortByVariable(entries, k + 1)

\* parse_dictionary from the prefix filter on, for one order the sort gave
parse_dictionary(rows, end_date_col, order) ==
    LET df_filtered == FilterPrefixes(rows)
        sorted == [i \in 1..Len(df_filtered) |-> df_filtered[order[i]]]
    IN  SortByVariable(OutputRows(DropDuplicates(sorted, {})), 1)

(***************************************************************************)
(* Inputs of parse_dictionary.                                             *)
(***************************************************************************)
\* the largest number of rows of MDRM.csv
MaxDictRows == 2

DictRowChoices ==
    [ mnemonic : {"RCON", "TEXT"}, item : {"2170"},
      end : {"", "12/31/2010", "12/31/2020", "12/31/9999"},
      desc : {"  ", " TOTAL  ASSETS ", "ASSETS"} ]
    \cup
    [ mnemonic : {"RCON"}, item : {"0010"}, end : {"", "12/31/2020"}, desc : {"CASH"} ]
    \cup
    [ mnemonic : {"RCFD"}, item : {"2170"}, end : {"12/31/2010"}, desc : {"ASSETS"} ]

DictUnset == <<[Variable |-> "(unset)", Description |-> ""]>>

DictIdle ==
    /\ dictRows = << >>
    /\ dictEndCol = FALSE
    /\ dictOut = << >>

DictInit ==
    /\ dictRows \in UNION { [1..n -> DictRowChoices] : n \in 0..MaxDictRows }
    /\ dictEndCol \in BOOLEAN
    /\ dictOut = DictUnset

(***************************************************************************)
(* parse_text_content and the member loop of parse_zip_file                *)
(* (05_parse_ffiec.py)                                                     *)
(*                                                                         *)
(* A stored member is [ext, utf8, table]: utf8 tells whether its bytes     *)
(* decode as UTF-8; table is its tab-delimited text, a sequence of columns *)
(* of strings under the header names as written, << >> for no text at all. *)
(***************************************************************************)
\* the modelled header names whose upper-case form contains 'RSSD'
RssdNames == {"IDRSSD", "RSSD9001", "RSSD9999", "RSSDDATE", "RSSD_ID", "RSSD9331"}

\* 'RSSD' in col_upper or 'IDRSSD' in col_upper or col_upper == 'RSSD9001'
IsRssdColumn(col_upper) ==
    col_upper \in RssdNames \/ col_upper = "IDRSSD" \/ col_upper = "RSSD9001"

\* "for col in df.columns: ... rssd_col = col; break": the index of rssd_col
\* among the columns from the i-th on, 0 for None
RECURSIVE FindRssdCol(_, _)
FindRssdCol(df, i) ==
    IF i > Len(df) THEN 0
    ELSE IF IsRssdColumn(Upper(df[i].name)) THEN i
    ELSE FindRssdCol(df, i + 1)

\* the cells pd.to_numeric takes for numbers, with their values
NumericCells == { <<"1", 1>>, <<"2", 2>>, <<"20240331", 20240331>> }

IsNumeric(cell) == \E nc \in NumericCells : nc[1] = cell

ToNumber(cell) == (CHOOSE nc \in NumericCells : nc[1] = cell)[2]

\* the indices of the rows dropna(subset=['RSSD_ID']) keeps after
\* pd.to_numeric(errors='coerce'), in row order
RECURSIVE ValidRows(_, _)
ValidRows(cells, i) ==
    IF i > Len(cells) THEN << >>
    ELSE (IF IsNumeric(cells[i]) THEN <<i>> ELSE << >>) \o ValidRows(cells, i + 1)

\* pd.to_numeric(df[col], errors='ignore'): numbers when every cell is one,
\* the column as it is otherwise
ToNumericIgnore(vals) ==
    IF \A r \in 1..Len(vals) : IsNumeric(vals[r])
    THEN [r \in 1..Len(vals) |-> ToNumber(vals[r])]
    ELSE vals

\* a plausible slip: with no identifier column found, the first column is
\* taken for it
parse_text_contentFirstColumn(content) ==
    LET k    == IF FindRssdCol(content, 1) = 0 THEN 1 ELSE FindRssdCol(content, 1)
        keep == ValidRows(content[k].vals, 1)
    IN  IF content = << >> THEN NoData
        ELSE [c \in 1..Len(content) |->
                IF c = k
                THEN [name |-> "RSSD_ID",
                      vals |-> [r \in 1..Len(keep) |-> ToNumber(content[c].vals[keep[r]])]]
                ELSE [name |-> content[c].name,
                      vals |-> ToNumericIgnore([r \in 1..Len(keep) |->
                                                  content[c].vals[keep[r]]])]]

\* parse_text_content: the table it returns, NoData for None.  Text with no
\* header line makes read_csv raise; a second column called RSSD_ID after
\* the rename makes pd.to_numeric raise; both end in "return None".
parse_text_content(content) ==
    LET k    == FindRssdCol(content, 1)
        keep == ValidRows(content[k].vals, 1)
    IN  IF content = << >> THEN NoData
        ELSE IF k = 0 THEN NoData
        ELSE IF \E c \in 1..Len(content) : c # k /\ content[c].name = "RSSD_ID" THEN NoData
        ELSE [c \in 1..Len(content) |->
                IF c = k
                THEN [name |-> "RSSD_ID",
                      vals |-> [r \in 1..Len(keep) |-> ToNumber(content[c].vals[keep[r]])]]
                ELSE [name |-> content[c].name,
                      vals |-> ToNumericIgnore([r \in 1..Len(keep) |->
                                                  content[c].vals[keep[r]]])]]

\* "content = f.read().decode('utf-8')" and, on UnicodeDecodeError,
\* "content = f.read().decode('latin-1')": the second read() starts where
\* the first one stopped, at the end of the member, and returns no bytes
DecodeMember(member) == IF member.utf8 THEN member.table ELSE << >>

\* the members of an archive as the loop of parse_zip_file parses them; a
\* text file is its own single member, read with errors='ignore'
ReadMembers(members) ==
    [i \in 1..Len(members) |->
        [ext |-> members[i].ext,
         df  |-> IF members[i].ext \in {".txt", ".csv"}
                 THEN parse_text_content(DecodeMember(members[i]))
                 ELSE NoData]]

\* the file as parse_bulk_file sees it once its members are parsed
ParsedFile(file) ==
    [name |-> file.name, members |-> ReadMembers(file.members), fault |-> "none"]

(***************************************************************************)
(* Inputs of the delimited reader.                                         *)
(***************************************************************************)
\* the largest number of members of an input archive
MaxTxtMembers == 2

TextTables ==
    { <<Column("IDRSSD", <<"1">>), Column("rcon2170", <<"a">>)>>,
      <<Column("RSSD9999", <<"20240331">>), Column("IDRSSD", <<"1">>),
        Column("rcon2170", <<"a">>)>>,
      <<Column("IDRSSD", <<"1", "x">>), Column("RCFD0010", <<"b", "c">>)>>,
      <<Column("RCFD0010", <<"d">>), Column("RSSD9001", <<"2">>)>>,
      <<Column("NAME", <<"n">>), Column("rcon2170", <<"a">>)>>,
      <<Column("IDRSSD", << >>), Column("rcon2170", << >>)>>,
      << >> }

TxtMemberChoices ==
    { [ext |-> ".txt", utf8 |-> u, table |-> t] : u \in BOOLEAN, t \in TextTables }
    \cup { [ext |-> ".xml", utf8 |-> TRUE, table |-> << >>] }

\* an archive of up to MaxTxtMembers members, or a text file
TxtFiles ==
    { [name |-> BulkNameOrder[1], members |-> m] :
        m \in UNION { [1..n -> TxtMemberChoices] : n \in 0..MaxTxtMembers } }
    \cup
    { [name |-> BulkNameOrder[2], members |-> <<[ext |-> ".txt", utf8 |-> TRUE, table |-> t]>>] :
        t \in TextTables }

TxtUnset == [members |-> << >>, df |-> NoTable, outcome |-> "unset", file |-> NoFile]

\* the output directory before the run: no file yet
TxtEmptyDirectory == [path \in BulkQuarters |-> NoFile]

\* one pass of the loop of main over the input file: the members as
\* parsed, the table parse_bulk_file returned, what the pass did and the
\* file at the output path after it
ReadTextFile(file) ==
    LET parsed == ParsedFile(file)
        pass   == BulkIteration(parsed, TxtEmptyDirectory, FALSE, ZeroCounts, FALSE)
        q      == extract_quarter_from_filename(file.name)
    IN  [members |-> parsed.members,
         df      |-> parse_bulk_file(parsed),
         outcome |-> pass.outcome,
         file    |-> pass.fs[<<q.year, q.quarter>>]]

TxtIdle ==
    /\ txtFile = [name |-> << >>, members |-> << >>]
    /\ txtOut = TxtUnset

TxtInit ==
    /\ txtFile \in TxtFiles
    /\ txtOut = TxtUnset

(***************************************************************************)
(* process_quarter (04_parse_chicago.py): the columns of the table         *)
(*                                                                         *)
(* A column is [name, src]: src names where its values come from, a column *)
(* of the .xpt file by its name there, or "(period)" for the reporting     *)
(* period.  The table read from the file is [names, rows]: its column      *)
(* names in file order and whether some entity type has rows in it, which  *)
(* takes a classification column.                                          *)
(***************************************************************************)
FromFile(names) == [c \in 1..Len(names) |-> [name |-> names[c], src |-> names[c]]]

\* df[name] = values: the column of that name is replaced where it stands,
\* a new name is appended
SetColumn(df, name, src) ==
    IF \E c \in 1..Len(df) : df[c].name = name
    THEN [c \in 1..Len(df) |-> IF df[c].name = name THEN [name |-> name, src |-> src] ELSE df[c]]
    ELSE Append(df, [name |-> name, src |-> src])

\* the loop of the last branch of "Ensure RSSD_ID exists": the index of the
\* column copied to RSSD_ID among the columns from the i-th on, 0 for none
RECURSIVE FirstRssdNamed(_, _)
FirstRssdNamed(df, i) ==
    IF i > Len(df) THEN 0
    ELSE IF Upper(df[i].name) \in {"RSSD9999", "RSSDDATE"} THEN FirstRssdNamed(df, i + 1)
    ELSE IF Upper(df[i].name) \in RssdNames THEN i
    ELSE FirstRssdNamed(df, i + 1)

\* "Ensure RSSD_ID exists"
EnsureRssdId(df) ==
    LET names == {df[c].name : c \in 1..Len(df)}
        k     == FirstRssdNamed(df, 1)
    IN  IF "RSSD9001" \in names THEN SetColumn(df, "RSSD_ID", "RSSD9001")
        ELSE IF "IDRSSD" \in names THEN SetColumn(df, "RSSD_ID", "IDRSSD")
        ELSE IF "RSSD_ID" \notin names /\ k # 0 THEN SetColumn(df, "RSSD_ID", df[k].src)
        ELSE df

\* df.columns = df.columns.str.upper()
UpperColumns(df) == [c \in 1..Len(df) |-> [df[c] EXCEPT !.name = Upper(df[c].name)]]

\* "Add metadata", "Ensure RSSD_ID exists", "Convert to uppercase": the table
\* process_quarter works on from there
QuarterColumns(names) ==
    UpperColumns(EnsureRssdId(SetColumn(FromFile(names), "reporting_period", "(period)")))

\* df[labels]: every column bearing a label, label by label
RECURSIVE SelectLabels(_, _)
SelectLabels(df, labels) ==
    IF labels = << >> THEN << >>
    ELSE SelectSeq(df, LAMBDA col : col.name = Head(labels)) \o SelectLabels(df, Tail(labels))

\* "Move metadata columns to front"
MetadataFirst(df) ==
    LET cols == [c \in 1..Len(df) |-> df[c].name]
        metadata_cols == <<"REPORTING_PERIOD", "RSSD_ID">>
        other_cols == SelectSeq(cols, LAMBDA c : c \notin {"REPORTING_PERIOD", "RSSD_ID"})
        present == SelectSeq(metadata_cols, LAMBDA c : \E i \in 1..Len(cols) : cols[i] = c)
    IN  SelectLabels(df, present \o other_cols)

\* pa.Table.from_pandas raises on a table whose column names repeat
UniqueNames(df) == \A c, d \in 1..Len(df) : df[c].name = df[d].name => c = d

ColUnset == [columns |-> << >>, handed |-> << >>, outcome |-> "unset"]

\* process_quarter from "Add metadata" on: the table after the upper-casing,
\* the table handed to write_parquet_with_metadata for the first entity
\* type with rows (<< >> when none is), and how the call ends: "empty" for
\* {} returned without an error, "raised" for {} returned by the except
\* clause, "written" for a dict with a record count
ProcessColumns(table) ==
    LET df == QuarterColumns(table.names)
    IN  IF \A c \in 1..Len(df) : df[c].name # "RSSD9331"
        THEN [columns |-> df, handed |-> << >>, outcome |-> "empty"]
        ELSE IF ~table.rows
        THEN [columns |-> df, handed |-> << >>, outcome |-> "empty"]
        ELSE [columns |-> df, handed |-> MetadataFirst(df),
              outcome |-> IF UniqueNames(MetadataFirst(df)) THEN "written" ELSE "raised"]

(***************************************************************************)
(* Inputs of the Chicago reader: the variable names of a SAS transport     *)
(* file are distinct whatever their letter case.                           *)
(***************************************************************************)
\* the largest number of columns of the table read from an .xpt file
MaxXptCols == 3

XptNames ==
    { "RSSD9001", "IDRSSD", "RSSD_ID", "rssd_id", "RSSD9331", "rssd9331", "RSSD9999",
      "RCON2170", "rcon2170", "REPORTING_PERIOD", "reporting_period" }

XptColumnLists ==
    { names \in UNION { [1..n -> XptNames] : n \in 0..MaxXptCols } :
        \A c, d \in 1..Len(names) : Upper(names[c]) = Upper(names[d]) => c = d }

ColIdle ==
    /\ xptColumns = [names |-> << >>, rows |-> FALSE]
    /\ colOut = [columns |-> << >>, handed |-> << >>, outcome |-> "off"]

ColInit ==
    /\ xptColumns \in { t \in [names : XptColumnLists, rows : BOOLEAN] :
                          t.rows => \E c \in 1..Len(t.names) : Upper(t.names[c]) = "RSSD9331" }
    /\ colOut = ColUnset

RdrIdle == TxtIdle /\ ColIdle

\* one reader is exercised at a time
RdrInit == (TxtInit /\ ColIdle) \/ (TxtIdle /\ ColInit)

CoreIdle == InferIdle /\ FcIdle /\ GapIdle /\ ChiIdle

ExtIdle == WrIdle /\ ZipIdle /\ BulkIdle /\ RawIdle /\ DictIdle /\ RdrIdle

(***************************************************************************)
(* Actions.                                                                *)
(***************************************************************************)
InferChicago ==
    /\ chicagoPeriod = Unset
    /\ chicagoPeriod' = infer_reporting_period_from_filename(filename)
    /\ UNCHANGED <<filename, ffiecQuarter, fcVars, gapVars, chiVars, extVars>>

ExtractQuarter ==
    /\ ffiecQuarter = Unset
    /\ ffiecQuarter' = extract_quarter_from_filename(filename)
    /\ UNCHANGED <<filename, chicagoPeriod, fcVars, gapVars, chiVars, extVars>>

FilterColumns ==
    /\ fcOut = NoTable
    /\ fcOut' = filter_columns(fcDf, fcMapping)
    /\ UNCHANGED <<fcDf, fcMapping, inferVars, gapVars, chiVars, extVars>>

GapCheck ==
    /\ gapState = "input"
    /\ gapState' = "done"
    /\ allGaps' = AllGaps(summaryDf)
    /\ UNCHANGED <<summaryDf, inferVars, fcVars, chiVars, extVars>>

\* a call of write_parquet_with_metadata that runs to its end
WriteParquet ==
    /\ wrFile = NoFile
    /\ wrFile' = write_parquet_with_metadata(wrDf, wrDescriptions)
    /\ UNCHANGED <<wrDf, wrDescriptions, coreVars, rdrVars, zipVars, bulkVars, rawVars, dictVars>>

\* main() of 05_parse_ffiec.py up to the loop: with no file to process it
\* prints a message and returns, and the script ends
BulkStart ==
    /\ bulkPc = "start"
    /\ IF bulkFiles = << >>
       THEN bulkPc' = "done" /\ bulkExit' = "0"
       ELSE bulkPc' = "loop" /\ bulkExit' = bulkExit
    /\ UNCHANGED <<bulkFiles, bulkForce, bulkFs, bulkTodo, bulkCounts, bulkHist,
                   coreVars, rdrVars, wrVars, zipVars, rawVars, dictVars>>

\* one iteration of the loop over files_to_process
BulkProcessFile ==
    /\ bulkPc = "loop"
    /\ bulkTodo <= Len(bulkFiles)
    /\ \E partial \in BOOLEAN :
          LET it == BulkIteration(bulkFiles[bulkTodo], bulkFs, bulkForce, bulkCounts, partial)
          IN  /\ bulkFs' = it.fs
              /\ bulkCounts' = it.counts
              /\ bulkHist' = [bulkHist EXCEPT
                                !.attempted = @ \cup {bulkTodo},
                                !.outcomes = @ \cup {<<bulkTodo, it.outcome>>},
                                !.wrote = @ \cup it.wrote]
    /\ bulkTodo' = bulkTodo + 1
    /\ UNCHANGED <<bulkFiles, bulkForce, bulkPc, bulkExit, coreVars, rdrVars, wrVars, zipVars, rawVars, dictVars>>

\* the summary after the loop; main() returns and the script ends
BulkFinish ==
    /\ bulkPc = "loop"
    /\ bulkTodo > Len(bulkFiles)
    /\ bulkPc' = "done"
    /\ bulkExit' = "0"
    /\ bulkHist' = [bulkHist EXCEPT !.summary = TRUE]
    /\ UNCHANGED <<bulkFiles, bulkForce, bulkFs, bulkTodo, bulkCounts,
                   coreVars, rdrVars, wrVars, zipVars, rawVars, dictVars>>

\* main() of parse_chicago.py up to the processing: with no .xpt file it
\* prints a message and returns, and the script ends
RawStart ==
    /\ rawPc = "start"
    /\ IF rawFiles = << >>
       THEN rawPc' = "done" /\ rawExit' = "0"
       ELSE rawPc' = "loop" /\ rawExit' = rawExit
    /\ UNCHANGED <<rawFiles, rawParallel, rawStartDate, rawEndDate, rawFs, rawPending,
                   rawCounts, rawHist, coreVars, rdrVars, wrVars, zipVars, bulkVars, dictVars>>

\* one iteration of the sequential loop, on the next file in order; an
\* exception out of the loop ends the script with a traceback and status 1
RawSequentialStep ==
    /\ rawPc = "loop"
    /\ ~rawParallel
    /\ rawPending # {}
    /\ LET i == CHOOSE k \in rawPending : \A o \in rawPending : k <= o
           r == SequentialBody(rawFiles[i], rawFs, rawStartDate, rawEndDate)
       IN  /\ rawFs' = r.fs
           /\ rawCounts' = CountStatus(rawCounts, r.status)
           /\ rawPending' = rawPending \ {i}
           /\ rawHist' = [rawHist EXCEPT !.attempted = @ \cup {i},
                                           !.writers = @ \cup RawWriter(rawFiles[i], i, rawStartDate, rawEndDate)]
           /\ IF r.raised
              THEN rawPc' = "done" /\ rawExit' = "1"
              ELSE rawPc' = rawPc /\ rawExit' = rawExit
    /\ UNCHANGED <<rawFiles, rawParallel, rawStartDate, rawEndDate,
                   coreVars, rdrVars, wrVars, zipVars, bulkVars, dictVars>>

\* a worker runs process_file_wrapper on one of the submitted files, in any
\* order, and the loop over as_completed counts its result
RawParallelStep ==
    /\ rawPc = "loop"
    /\ rawParallel
    /\ \E i \in rawPending :
          LET r == process_file_wrapper(rawFiles[i], rawFs, rawStartDate, rawEndDate)
          IN  /\ rawFs' = r.fs
              /\ rawCounts' = CountStatus(rawCounts, r.status)
              /\ rawPending' = rawPending \ {i}
              /\ rawHist' = [rawHist EXCEPT !.attempted = @ \cup {i},
                                           !.writers = @ \cup RawWriter(rawFiles[i], i, rawStartDate, rawEndDate)]
    /\ UNCHANGED <<rawFiles, rawParallel, rawStartDate, rawEndDate, rawPc, rawExit,
                   coreVars, rdrVars, wrVars, zipVars, bulkVars, dictVars>>

\* the summary after the processing; main() returns and the script ends
RawFinish ==
    /\ rawPc = "loop"
    /\ rawPending = {}
    /\ rawPc' = "done"
    /\ rawExit' = "0"
    /\ rawHist' = [rawHist EXCEPT !.summary = TRUE]
    /\ UNCHANGED <<rawFiles, rawParallel, rawStartDate, rawEndDate, rawFs, rawPending,
                   rawCounts, coreVars, rdrVars, wrVars, zipVars, bulkVars, dictVars>>

\* a call of parse_dictionary on the rows read from MDRM.csv
ParseDictionary ==
    /\ dictOut = DictUnset
    /\ \E order \in SortedOrders(FilterPrefixes(dictRows), dictEndCol) :
          dictOut' = parse_dictionary(dictRows, dictEndCol, order)
    /\ UNCHANGED <<dictRows, dictEndCol, coreVars, rdrVars, wrVars, zipVars, bulkVars, rawVars>>

\* a call of parse_zip_file
ReadFfiecFile ==
    /\ txtOut = TxtUnset
    /\ txtFile # [name |-> << >>, members |-> << >>]
    /\ txtOut' = ReadTextFile(txtFile)
    /\ UNCHANGED <<txtFile, colVars, coreVars, wrVars, zipVars, bulkVars, rawVars, dictVars>>

ReadXptColumns ==
    /\ colOut = ColUnset
    /\ colOut' = ProcessColumns(xptColumns)
    /\ UNCHANGED <<xptColumns, txtVars, coreVars, wrVars, zipVars, bulkVars, rawVars, dictVars>>

ParseZip ==
    /\ zipResult = NoTable
    /\ zipResult' = parse_zip_file(zipMembers)
    /\ UNCHANGED <<zipMembers, coreVars, rdrVars, wrVars, bulkVars, rawVars, dictVars>>

\* main() up to the processing loop: the files are listed and sorted by
\* date, the counters start at zero
ChiStartRun ==
    /\ chiPc \in {"idle", "done"}
    /\ \E f \in BOOLEAN : force' = f
    /\ chiPc' = "running"
    /\ todo' = SortPeriods(DOMAIN xptTable)
    /\ stats' = ZeroStats
    /\ runHist' = [ran |-> chiPc = "done", prevClean |-> runHist.clean,
                   prevProcessed |-> runHist.processed, fsStart |-> fs,
                   clean |-> TRUE, reports |-> {}, processed |-> {}]
    /\ UNCHANGED <<xptTable, fs, lastCall, inferVars, fcVars, gapVars, extVars>>

\* one iteration of the processing loop
ChiProcessQuarter ==
    /\ chiPc = "running"
    /\ todo # << >>
    /\ \E fault \in Faults :
          LET reporting_period == Head(todo)
              r == process_quarter(fs, xptTable[reporting_period], reporting_period,
                                   force, fault)
          IN  /\ fs' = r.fs
              /\ stats' = UpdateStats(stats, r)
              /\ lastCall' =
                    [kind |-> r.kind, period |-> reporting_period, force |-> force,
                     faulted |-> fault # NoFault,
                     existed |-> {e \in EntityNames :
                                    Exists(fs, OutputPath(e, reporting_period))},
                     wrote |-> r.wrote, results |-> r.results, raised |-> r.raised,
                     readFailed |-> r.raised /\ fault.kind = "read"]
              /\ runHist' =
                    [runHist EXCEPT
                       !.clean = @ /\ ~r.raised,
                       !.reports = @ \cup {<<reporting_period, r.kind>>},
                       !.processed = @ \cup (IF r.results # {} THEN {reporting_period} ELSE {})]
    /\ todo' = Tail(todo)
    /\ UNCHANGED <<xptTable, force, chiPc, inferVars, fcVars, gapVars, extVars>>

\* the loop is over: the summary is printed and main() returns
ChiFinishRun ==
    /\ chiPc = "running"
    /\ todo = << >>
    /\ chiPc' = "done"
    /\ UNCHANGED <<xptTable, fs, force, todo, stats, lastCall, runHist,
                   inferVars, fcVars, gapVars, extVars>>

(***************************************************************************)
(* Specifications.                                                         *)
(***************************************************************************)
InitInfer == InferInit /\ FcIdle /\ GapIdle /\ ChiIdle /\ ExtIdle
InferNext == InferChicago \/ ExtractQuarter
SpecInfer == InitInfer /\ [][InferNext]_vars

InitFilter == InferIdle /\ FcInit /\ GapIdle /\ ChiIdle /\ ExtIdle
FcNext == FilterColumns
SpecFilter == InitFilter /\ [][FcNext]_vars

InitGaps == InferIdle /\ FcIdle /\ GapInit /\ ChiIdle /\ ExtIdle
GapNext == GapCheck
SpecGaps == InitGaps /\ [][GapNext]_vars

InitChicago == InferIdle /\ FcIdle /\ GapIdle /\ ChiInit /\ ExtIdle
ChiNext == ChiStartRun \/ ChiProcessQuarter \/ ChiFinishRun
SpecChicago == InitChicago /\ [][ChiNext]_vars

InitWrite == CoreIdle /\ RdrIdle /\ WrInit /\ ZipIdle /\ BulkIdle /\ RawIdle /\ DictIdle
WrNext == WriteParquet
SpecWrite == InitWrite /\ [][WrNext]_vars

InitZip == CoreIdle /\ RdrIdle /\ WrIdle /\ ZipInit /\ BulkIdle /\ RawIdle /\ DictIdle
ZipNext == ParseZip
SpecZip == InitZip /\ [][ZipNext]_vars

InitBulk == CoreIdle /\ RdrIdle /\ WrIdle /\ ZipIdle /\ BulkInit /\ RawIdle /\ DictIdle
BulkNext == BulkStart \/ BulkProcessFile \/ BulkFinish
SpecBulk == InitBulk /\ [][BulkNext]_vars

InitRaw == CoreIdle /\ RdrIdle /\ WrIdle /\ ZipIdle /\ BulkIdle /\ RawInit /\ DictIdle
RawNext == RawStart \/ RawSequentialStep \/ RawParallelStep \/ RawFinish
SpecRaw == InitRaw /\ [][RawNext]_vars

InitDict == CoreIdle /\ RdrIdle /\ WrIdle /\ ZipIdle /\ BulkIdle /\ RawIdle /\ DictInit
DictNext == ParseDictionary
SpecDict == InitDict /\ [][DictNext]_vars

InitReaders == CoreIdle /\ WrIdle /\ ZipIdle /\ BulkIdle /\ RawIdle /\ DictIdle /\ RdrInit
RdrNext == ReadFfiecFile \/ ReadXptColumns
SpecReaders == InitReaders /\ [][RdrNext]_vars

\* the whole model: one component is exercised, the others stay idle
Init ==
    \/ InitInfer
    \/ InitFilter
    \/ InitGaps
    \/ InitChicago
    \/ InitWrite
    \/ InitZip
    \/ InitBulk
    \/ InitRaw
    \/ InitDict
    \/ InitReaders

Next ==
    \/ InferNext
    \/ FcNext
    \/ GapNext
    \/ ChiNext
    \/ WrNext
    \/ ZipNext
    \/ BulkNext
    \/ RawNext
    \/ DictNext
    \/ RdrNext

Spec == Init /\ [][Next]_vars


(***************************************************************************)
(* Claims about the period inferrers (SpecInfer).                          *)
(***************************************************************************)
QuarterEndMonths == {3, 6, 9, 12}

IsLeapYear(y) == (y % 4 = 0 /\ y % 100 # 0) \/ y % 400 = 0

\* the last calendar day of a month
DaysInMonth(y, m) ==
    IF m \in {1, 3, 5, 7, 8, 10, 12} THEN 31
    ELSE IF m \in {4, 6, 9, 11} THEN 30
    ELSE IF IsLeapYear(y) THEN 29 ELSE 28

\* the four-digit spelling of a year
D4(y) == D2(y \div 100) \o D2(y % 100)

\* the stems of a Chicago-style token, the words of call?p?
TokenStems ==
    { <<"c","a","l">>, <<"c","a","l","l">>, <<"c","a","l","p">>, <<"c","a","l","l","p">> }

\* a Chicago-style token (stem + YY + MM, letter case ignored) starts at i
\* with stem st
TokenAt(s, i, st) ==
    /\ i + Len(st) + 3 <= Len(s)
    /\ \A k \in 1..Len(st) : LowerChar(s[i + k - 1]) = st[k]
    /\ \A k \in (i + Len(st))..(i + Len(st) + 3) : IsDigit(s[k])

HasToken(s) == \E i \in 1..Len(s), st \in TokenStems : TokenAt(s, i, st)

\* the token is the leftmost one of the name
FirstTokenAt(s, i, st) ==
    /\ TokenAt(s, i, st)
    /\ \A j \in 1..(i - 1), st2 \in TokenStems : ~TokenAt(s, j, st2)

\* the token at i with stem st spells the two-digit year yy and the month mm
TokenSpells(s, i, st, yy, mm) ==
    SubSeq(s, i + Len(st), i + Len(st) + 3) = D2(yy) \o D2(mm)

\* eight consecutive digits start at i, and nowhere before i
FirstEightDigitsAt(s, i) ==
    /\ i + 7 <= Len(s)
    /\ \A k \in i..(i + 7) : IsDigit(s[k])
    /\ \A j \in 1..(i - 1) : \E k \in j..(j + 7) : ~IsDigit(s[k])

HasEightDigits(s) == \E i \in 1..Len(s) : FirstEightDigitsAt(s, i)

ValidYears == 1985..2030

QuarterEndDates == { <<3, 31>>, <<6, 30>>, <<9, 30>>, <<12, 31>> }

\* C1: for a filename whose Chicago-style token (the one the search finds,
\* the leftmost) has a month MM in {03, 06, 09, 12}, the inferred period is
\* the last calendar day of month MM, in year 1900+YY when YY >= 76 and
\* 2000+YY when YY < 76.
C1_QuarterEndOfToken ==
    chicagoPeriod.kind \in {"none", "ts"} =>
        \A i \in 1..Len(filename), st \in TokenStems :
            FirstTokenAt(filename, i, st) =>
                \A yy \in 0..99, mm \in QuarterEndMonths :
                    TokenSpells(filename, i, st, yy, mm) =>
                        LET y == IF yy >= 76 THEN 1900 + yy ELSE 2000 + yy
                        IN  /\ chicagoPeriod.kind = "ts"
                            /\ chicagoPeriod.year = y
                            /\ chicagoPeriod.month = mm
                            /\ chicagoPeriod.day = DaysInMonth(y, mm)

\* C1 witness: call8503.xpt has been inferred as 1985-03-31
C1_Witness ==
    /\ filename = <<"c","a","l","l","8","5","0","3",".","x","p","t">>
    /\ chicagoPeriod.kind = "ts"
    /\ chicagoPeriod.year = 1985
    /\ chicagoPeriod.month = 3
    /\ chicagoPeriod.day = 31

\* C2: for a filename whose first eight-digit token is YYYYMMDD with the year
\* in 1985..2030 and (month, day) a quarter end, the extracted year is that
\* year and the quarter is month / 3.
C2_YearFirstQuarterEnd ==
    ffiecQuarter.kind \in {"none", "quarter"} =>
        \A i \in 1..Len(filename) :
            FirstEightDigitsAt(filename, i) =>
                \A y \in ValidYears, md \in QuarterEndDates :
                    SubSeq(filename, i, i + 7) = D4(y) \o D2(md[1]) \o D2(md[2]) =>
                        /\ ffiecQuarter.kind = "quarter"
                        /\ ffiecQuarter.year = y
                        /\ ffiecQuarter.quarter = md[1] \div 3

\* C2 witness: FFIEC_20240630.txt has been extracted as 2024 Q2
C2_Witness ==
    /\ filename = <<"F","F","I","E","C","_","2","0","2","4","0","6","3","0",".","t","x","t">>
    /\ ffiecQuarter.kind = "quarter"
    /\ ffiecQuarter.year = 2024
    /\ ffiecQuarter.quarter = 2

\* the four digits from i on spell a year of the valid range
SpellsValidYear(s, i) == \E y \in ValidYears : SubSeq(s, i, i + 3) = D4(y)

\* C3: no period is returned for a name without a matching digit pattern,
\* for a name whose eight-digit token has a year outside 1985..2030 under
\* both readings, nor, by the Chicago inferrer, for a month token other than
\* 03, 06, 09, 12.
C3_NoMatchNoPeriod ==
    /\ ffiecQuarter.kind \in {"none", "quarter"} =>
          /\ ~HasEightDigits(filename) => ffiecQuarter = NoPeriod
          /\ \A i \in 1..Len(filename) :
                (/\ FirstEightDigitsAt(filename, i)
                 /\ ~SpellsValidYear(filename, i + 4)
                 /\ ~SpellsValidYear(filename, i)) => ffiecQuarter = NoPeriod
    /\ chicagoPeriod.kind \in {"none", "ts"} =>
          /\ ~HasToken(filename) => chicagoPeriod = NoPeriod
          /\ \A i \in 1..Len(filename), st \in TokenStems :
                (/\ FirstTokenAt(filename, i, st)
                 /\ \A mm \in QuarterEndMonths :
                        SubSeq(filename, i + Len(st) + 2, i + Len(st) + 3) # D2(mm))
                    => chicagoPeriod = NoPeriod

\* C3 witness: call12312031.txt, whose eight digits have a year out of range
\* under both readings and whose Chicago-style month token is 31, has been
\* answered with no match by both inferrers
C3_Witness ==
    /\ filename = <<"c","a","l","l","1","2","3","1","2","0","3","1",".","t","x","t">>
    /\ ffiecQuarter = NoPeriod
    /\ chicagoPeriod = NoPeriod

\* a real calendar date within the valid years
RealDate(y, m, d) ==
    y \in ValidYears /\ m \in 1..12 /\ d \in 1..DaysInMonth(y, m)

\* C4: a period is returned only when the eight-digit token denotes, in one
\* of the two readings, a date with a valid year, a month in 1..12 and a day
\* that exists in that month of that year.
C4_OnlyRealDates ==
    ffiecQuarter.kind = "quarter" =>
        \E i \in 1..Len(filename) :
            /\ FirstEightDigitsAt(filename, i)
            /\ \/ RealDate(Int4(filename, i + 4), Int2(filename, i), Int2(filename, i + 2))
               \/ RealDate(Int4(filename, i), Int2(filename, i + 4), Int2(filename, i + 6))


(***************************************************************************)
(* Claims about the entity split of process_quarter (SpecChicago).         *)
(* They are read off the last call of process_quarter: lastCall, the table *)
(* of its period and the files it left at that period's paths.             *)
(***************************************************************************)
\* the value sets of the three categories, as the documentation lists them
CategoryValues ==
    ("FFIEC_031_041" :> {1}) @@ ("FFIEC_002" :> {10, 11}) @@ ("FRB_2886b" :> {13, 17})

Categories == DOMAIN CategoryValues

\* the RSSD9331 values of the rows of the last call's input file
CallRows == xptTable[lastCall.period].rows

\* the identifiers of the rows in the file the last call left for category c
WrittenIds(c) ==
    LET file == fs[<<c, lastCall.period.year, lastCall.period.quarter>>]
    IN  {file.rows[k].id : k \in 1..Len(file.rows)}

\* the last call went through the split: it did not skip, the table had an
\* RSSD9331 column and nothing raised
SplitCompleted ==
    /\ lastCall.kind = "dict"
    /\ ~lastCall.raised
    /\ xptTable[lastCall.period].has9331

InCategory(i, c) == CallRows[i] \cap CategoryValues[c] # {}

\* the commercial-bank category is not written for periods after 2010-12-31
AfterCutoff(period) == period.year > 2010

\* C5 as stated: after a call that went through the split, every row whose
\* RSSD9331 value is in category A's value set is in A's written table and in
\* no other category's table
C5_RowInItsCategoryTable ==
    SplitCompleted =>
        \A i \in 1..Len(CallRows), a \in Categories :
            InCategory(i, a) =>
                /\ a \in lastCall.wrote
                /\ i \in WrittenIds(a)
                /\ \A b \in lastCall.wrote \ {a} : i \notin WrittenIds(b)

\* C5 amended: no row is in two written tables and a row of category A is in
\* no other category's table, after every call; after a call that went through
\* the split the row is in A's table unless A is the commercial-bank category
\* and the period is after 2010-12-31, in which case it is in no table
C5_RowOnlyInItsCategoryTable ==
    lastCall.kind # "none" =>
        /\ \A a, b \in lastCall.wrote : a # b => WrittenIds(a) \cap WrittenIds(b) = {}
        /\ \A i \in 1..Len(CallRows), a \in Categories :
              InCategory(i, a) =>
                  /\ \A b \in lastCall.wrote \ {a} : i \notin WrittenIds(b)
                  /\ SplitCompleted =>
                        IF a = "FFIEC_031_041" /\ AfterCutoff(lastCall.period)
                        THEN a \notin lastCall.wrote
                        ELSE a \in lastCall.wrote /\ i \in WrittenIds(a)

\* C5 witness: a call that wrote the rows of two categories to two tables
C5_Witness ==
    /\ SplitCompleted
    /\ \E a, b \in lastCall.wrote :
          /\ a # b
          /\ WrittenIds(a) # {}
          /\ WrittenIds(b) # {}
          /\ \E i \in WrittenIds(a) : InCategory(i, a)

\* row i of the last call's input belongs to no category (a missing value
\* included)
Uncategorized(i) == \A c \in Categories : ~InCategory(i, c)

\* C6: a row whose RSSD9331 value is in no category's value set is in none of
\* the written tables, and a call in which nothing else goes wrong does not
\* fail because of it: every category that is written for the period still
\* gets exactly its rows
C6_UncategorizedRowDropped ==
    (lastCall.kind = "dict" /\ xptTable[lastCall.period].has9331) =>
        /\ \A i \in 1..Len(CallRows) :
              Uncategorized(i) => \A c \in lastCall.wrote : i \notin WrittenIds(c)
        /\ ~lastCall.faulted =>
              /\ ~lastCall.raised
              /\ \A c \in Categories :
                    ~(c = "FFIEC_031_041" /\ AfterCutoff(lastCall.period)) =>
                        LET mine == {i \in 1..Len(CallRows) : InCategory(i, c)}
                        IN  IF mine = {} THEN c \notin lastCall.wrote
                            ELSE c \in lastCall.wrote /\ WrittenIds(c) = mine

\* C6 witness: a call on a file with a row of no category and a row of some
\* category, which wrote the latter
C6_Witness ==
    /\ SplitCompleted
    /\ ~lastCall.faulted
    /\ \E i, j \in 1..Len(CallRows) :
          /\ Uncategorized(i)
          /\ \E c \in lastCall.wrote : InCategory(j, c) /\ j \in WrittenIds(c)


(***************************************************************************)
(* Claims about filter_columns (SpecFilter).                               *)
(***************************************************************************)
AlwaysKept == {"REPORTING_PERIOD", "RSSD_ID", "RSSD9001", "IDRSSD"}

TargetForms ==
    {"FFIEC 031", "FFIEC 041", "FFIEC 032", "FFIEC 033", "FFIEC 034", "FFIEC 051"}

\* the forms string has a comma-separated segment that is a target form
ListsTargetForm(forms) ==
    \E j \in 1..Len(forms) :
        /\ forms[j] \in TargetForms
        /\ j = 1 \/ forms[j - 1] = ","
        /\ j = Len(forms) \/ forms[j + 1] = ","

FormMember(col) ==
    \E kv \in fcMapping : kv[1] = Upper(col.name) /\ ListsTargetForm(kv[2])

AllMissing(col) == \A r \in 1..Len(col.vals) : col.vals[r] = "NA"

ShouldKeep(col) ==
    \/ Upper(col.name) \in AlwaysKept
    \/ FormMember(col)
    \/ ~AllMissing(col)

QuarterIndex(year, q) == 4 * year + (q - 1)

\* the quarters summarized for one category
PeriodsOf(entity_type) ==
    { QuarterIndex(r.date.year, r.date.quarter) :
        r \in {x \in summaryDf : x.entity_type = entity_type} }

\* the gaps reported for one category: its entry in all_gaps, none without one
ReportedGaps(entity_type) ==
    IF \E kv \in allGaps : kv[1] = entity_type
    THEN (CHOOSE kv \in allGaps : kv[1] = entity_type)[2]
    ELSE << >>

\* the quarters that follow a summarized quarter other than the last and are
\* not themselves summarized
MissingSuccessors(periods) ==
    { n + 1 : n \in {m \in periods : (\E l \in periods : l > m) /\ (m + 1) \notin periods} }

\* C8: for each category the gap check reports, in date order and once each,
\* the quarter expected after a summarized quarter exactly when the next
\* summarized quarter is another one, and nothing after the last quarter; so
\* 2019Q4, 2020Q1, 2020Q3 reports 2020Q2 alone and 2019Q4, 2020Q1 reports
\* nothing
C8_GapsAreMissingSuccessors ==
    gapState = "done" =>
        \A e \in {"FFIEC_031_041", "FFIEC_002", "FRB_2886b"} :
            LET periods  == PeriodsOf(e)
                reported == ReportedGaps(e)
            IN  /\ {QuarterIndex(reported[k].year, reported[k].q) : k \in 1..Len(reported)}
                      = MissingSuccessors(periods)
                /\ Len(reported) = Cardinality(MissingSuccessors(periods))
                /\ \A k, l \in 1..Len(reported) :
                      k < l => QuarterIndex(reported[k].year, reported[k].q)
                                 < QuarterIndex(reported[l].year, reported[l].q)
                /\ \A k \in 1..Len(reported) : reported[k].q \in 1..4
                /\ periods = {QuarterIndex(2019, 4), QuarterIndex(2020, 1), QuarterIndex(2020, 3)}
                      => reported = <<[year |-> 2020, q |-> 2]>>
                /\ periods = {QuarterIndex(2019, 4), QuarterIndex(2020, 1)}
                      => reported = << >>

\* C8 witness: the gap check has run on a category summarized for 2019Q4, 2020Q1
\* and 2020Q3 and on another summarized for 2019Q4 and 2020Q1
C8_Witness ==
    /\ gapState = "done"
    /\ \E a, b \in {"FFIEC_031_041", "FFIEC_002", "FRB_2886b"} :
          /\ PeriodsOf(a) = {QuarterIndex(2019, 4), QuarterIndex(2020, 1), QuarterIndex(2020, 3)}
          /\ ReportedGaps(a) = <<[year |-> 2020, q |-> 2]>>
          /\ PeriodsOf(b) = {QuarterIndex(2019, 4), QuarterIndex(2020, 1)}
          /\ ReportedGaps(b) = << >>


(***************************************************************************)
(* Claims about skip-if-exists (SpecChicago).                              *)
(***************************************************************************)
\* C9: a run without force that follows a run over the same inputs, nothing
\* going wrong in either, leaves every output file as it was and reports as
\* skipped every period the earlier run wrote
C9_SecondRunSkipsEveryPeriod ==
    (chiPc = "done" /\ runHist.ran /\ runHist.prevClean /\ runHist.clean /\ ~force) =>
        /\ fs = runHist.fsStart
        /\ \A p \in runHist.prevProcessed : <<p, "skipped">> \in runHist.reports

\* C10: a call of process_quarter without force writes to no path at which a
\* file existed when the call began
C10_ExistingFileNeverRewritten ==
    (lastCall.kind # "none" /\ ~lastCall.force) =>
        lastCall.wrote \cap lastCall.existed = {}


(***************************************************************************)
(* Claims about the writer's all-or-nothing behaviour (SpecChicago).       *)
(***************************************************************************)
\* C11: every output path holds a completely written table or no file at
\* all, also after a write that failed midway, and a call of process_quarter
\* that skips its period found only completely written files
C11_NoPartialFile ==
    /\ \A path \in DOMAIN fs : fs[path].state \in {"absent", "complete"}
    /\ lastCall.kind = "skipped" =>
          \A c \in lastCall.existed :
              fs[<<c, lastCall.period.year, lastCall.period.quarter>>].state = "complete"


(***************************************************************************)
(* Claims about write_parquet_with_metadata (SpecWrite).                   *)
(***************************************************************************)
\* what re-reading a file gives: the row count, the column names and, per
\* field, the descriptions its metadata carries
ReadRowCount(file) == IF file.fields = << >> THEN 0 ELSE Len(file.fields[1].vals)

ReadColumns(file) == {file.fields[i].name : i \in 1..Len(file.fields)}

ReadDescriptions(file, i) ==
    {kv[2] : kv \in {m \in file.fields[i].metadata : m[1] = "description"}}

TableRowCount(df) == IF df = << >> THEN 0 ELSE Len(df[1].vals)

\* C12: re-reading a written file gives the row count and the column set of
\* the table written; a field whose upper-cased name has a non-empty
\* description in the dictionary carries exactly that description, any other
\* field carries none
C12_RoundTripKeepsTableAndDescriptions ==
    wrFile.state = "complete" =>
        /\ ReadRowCount(wrFile) = TableRowCount(wrDf)
        /\ ReadColumns(wrFile) = {wrDf[i].name : i \in 1..Len(wrDf)}
        /\ Len(wrFile.fields) = Len(wrDf)
        /\ \A i \in 1..Len(wrDf) :
              /\ wrFile.fields[i].name = wrDf[i].name
              /\ wrFile.fields[i].vals = wrDf[i].vals
              /\ ReadDescriptions(wrFile, i) =
                    {kv[2] : kv \in {d \in wrDescriptions :
                                        d[1] = Upper(wrDf[i].name) /\ d[2] # ""}}

\* C12 witness: a table with rows has been written whose column rcon2170
\* carries the description of RCON2170 and whose other column, with no
\* dictionary entry, carries none
C12_Witness ==
    /\ wrFile.state = "complete"
    /\ TableRowCount(wrDf) > 0
    /\ \E i, j \in 1..Len(wrFile.fields) :
          /\ wrFile.fields[i].name = "rcon2170"
          /\ ReadDescriptions(wrFile, i) = {"TOTAL ASSETS"}
          /\ ~\E d \in wrDescriptions : d[1] = Upper(wrFile.fields[j].name)
          /\ ReadDescriptions(wrFile, j) = {}

(***************************************************************************)
(* C18: the merge of the members of an archive (SpecZip).                  *)
(***************************************************************************)
ZipParsed == AllData(zipMembers)

IdsOf(df) == {ColumnOf(df, "RSSD_ID").vals[i] : i \in 1..Len(ColumnOf(df, "RSSD_ID").vals)}

\* the members, by position among the parsed ones, that have a column name
MembersWith(name) == {m \in 1..Len(ZipParsed) : name \in ColumnNames(ZipParsed[m])}

EarliestWith(name) ==
    ZipParsed[CHOOSE m \in MembersWith(name) : \A o \in MembersWith(name) : m <= o]

\* the values the earliest member with that column gives identifier id
EarliestValues(name, id) ==
    LET e == EarliestWith(name)
        ids == ColumnOf(e, "RSSD_ID").vals
    IN  {ColumnOf(e, name).vals[i] : i \in {j \in 1..Len(ids) : ids[j] = id}}

SharedNames ==
    {name \in ZipColumnNames \ {"RSSD_ID"} : Cardinality(MembersWith(name)) > 1}

\* C18: once parse_zip_file has returned for an archive with at least one
\* parsed member, every identifier of every parsed member is in the result's
\* RSSD_ID column; a column name found in more than one member names exactly
\* one column of the result; and in each row of the result that column holds
\* a value the earliest member with the column has for the row's identifier,
\* or a missing value when that member does not list the identifier, and
\* every value of the earliest member appears under its identifier.
C18_OuterJoinKeepsEarliestColumn ==
    (zipResult # NoTable /\ ZipParsed # << >>) =>
        /\ zipResult # NoData
        /\ \A m \in 1..Len(ZipParsed) : IdsOf(ZipParsed[m]) \subseteq IdsOf(zipResult)
        /\ \A name \in SharedNames :
              /\ Cardinality({c \in 1..Len(zipResult) : zipResult[c].name = name}) = 1
              /\ LET col == ColumnOf(zipResult, name).vals
                     ids == ColumnOf(zipResult, "RSSD_ID").vals
                 IN  /\ \A r \in 1..Len(ids) :
                           IF ids[r] \in IdsOf(EarliestWith(name))
                           THEN col[r] \in EarliestValues(name, ids[r])
                           ELSE col[r] = "NA"
                     /\ \A id \in IdsOf(EarliestWith(name)) :
                           \A v \in EarliestValues(name, id) :
                               \E r \in 1..Len(ids) : ids[r] = id /\ col[r] = v

\* three members were merged: the first lists identifier 1 only, the second
\* repeats column A with other values and adds identifier 2, the third
\* repeats column B; identifier 2 has no value of the first member's column
C18_Witness ==
    /\ zipResult # NoTable
    /\ Len(ZipParsed) = 3
    /\ IdsOf(ZipParsed[1]) = {1}
    /\ SharedNames = {"RCON2170", "RCFD0010"}
    /\ IdsOf(zipResult) = {1, 2}
    /\ ColumnOf(zipResult, "RCON2170").vals = <<"a", "NA">>
    /\ ColumnOf(zipResult, "RCFD0010").vals = <<"b", "NA">>

(***************************************************************************)
(* Claims about the run summaries (SpecChicago, SpecBulk).                 *)
(***************************************************************************)
\* the Chicago input files the summary counts as processed, and as skipped
ChiCountedProcessed == {p \in DOMAIN xptTable : p \in runHist.processed}
ChiCountedSkipped == {p \in DOMAIN xptTable : <<p, "skipped">> \in runHist.reports}

\* C14: when a run has reached its summary, every input file is counted in
\* exactly one of processed, skipped and errored, so that the counts sum to
\* the number of input files: in the Chicago main loop, whose summary has no
\* errored count, every file is counted as processed or as skipped and not
\* as both; in the FFIEC main loop the three counters sum to the number of
\* files and each file has one outcome
C14_EveryFileCountedOnce ==
    /\ chiPc = "done" =>
          /\ ChiCountedProcessed \cup ChiCountedSkipped = DOMAIN xptTable
          /\ ChiCountedProcessed \cap ChiCountedSkipped = {}
    /\ bulkHist.summary =>
          /\ bulkCounts.processed + bulkCounts.skipped + bulkCounts.error = Len(bulkFiles)
          /\ \A i \in 1..Len(bulkFiles) :
                Cardinality({o \in bulkHist.outcomes : o[1] = i}) = 1

(***************************************************************************)
(* Claims about the FFIEC pipeline (SpecBulk).                             *)
(***************************************************************************)
\* C15: a run that found no input file has ended without processing a file
\* and with a non-zero exit status, and a run that found files has ended
\* only after its loop reached every one of them
C15_NoInputExitsNonZero ==
    bulkPc = "done" =>
        IF bulkFiles = << >>
        THEN bulkHist.attempted = {} /\ bulkExit # "0"
        ELSE bulkHist.attempted = 1..Len(bulkFiles)

\* the rows of a written file, as pairs of identifier and period
WrittenKeys(file) ==
    [r \in 1..Len(ColumnOf(file.fields, "RSSD_ID").vals) |->
        <<ColumnOf(file.fields, "RSSD_ID").vals[r],
          ColumnOf(file.fields, "REPORTING_PERIOD").vals[r]>>]

\* C16: in every table the run wrote, no two rows have the same RSSD_ID and
\* REPORTING_PERIOD
C16_IdentifierPeriodUnique ==
    \A path \in bulkHist.wrote :
        bulkFs[path].state = "complete" =>
            \A i, j \in 1..Len(WrittenKeys(bulkFs[path])) :
                WrittenKeys(bulkFs[path])[i] = WrittenKeys(bulkFs[path])[j] => i = j

\* C17: in every table the run wrote, each REPORTING_PERIOD value is the
\* last day of the last month of the file's quarter
C17_PeriodIsQuarterEnd ==
    \A path \in bulkHist.wrote :
        bulkFs[path].state = "complete" =>
            \A r \in 1..Len(WrittenKeys(bulkFs[path])) :
                WrittenKeys(bulkFs[path])[r][2] = QuarterEnd(path[1], path[2])

(***************************************************************************)
(* Claims about per-file failures (SpecRaw, SpecBulk, SpecChicago).        *)
(***************************************************************************)
\* C13: whatever fails for single files, a run that has ended has attempted
\* every input file: in either mode of parse_chicago.py, in the FFIEC
\* pipeline and in the Chicago pipeline
C13_EveryFileAttempted ==
    /\ rawPc = "done" => rawHist.attempted = 1..Len(rawFiles)
    /\ bulkPc = "done" => bulkHist.attempted = 1..Len(bulkFiles)
    /\ chiPc = "done" => {r[1] : r \in runHist.reports} = DOMAIN xptTable

\* C19: a call of process_quarter whose read failed with every encoding is
\* reported as an error: neither as skipped nor as an empty result that the
\* summary counts nowhere
C19_ReadFailureIsAnError ==
    lastCall.readFailed =>
        /\ lastCall.kind # "skipped"
        /\ ~(lastCall.kind = "dict" /\ lastCall.results = {})

(***************************************************************************)
(* C20: the deduplication of the dictionary (SpecDict).                    *)
(***************************************************************************)
\* the rows of the input that have a Call Report prefix and the given
\* variable code
RowsOfVariable(name) ==
    {i \in 1..Len(dictRows) :
        /\ dictRows[i].mnemonic \in CALL_REPORT_PREFIXES
        /\ Upper(FullVariable(dictRows[i])) = name}

\* row i has the most recent end date among the rows of its variable code,
\* a missing end date counting as more recent than any date
MostRecentOf(i, name) ==
    LET mine == EndDate(dictRows[i], dictEndCol)
    IN  \/ mine = {}
        \/ \A o \in RowsOfVariable(name) :
              LET theirs == EndDate(dictRows[o], dictEndCol)
              IN  theirs # {} /\ YearOf(theirs) <= YearOf(mine)

\* C20: once parse_dictionary has run, no two entries of the output have the
\* same variable code, and each entry carries the description of a row that
\* has the most recent end date among the rows of its code, a row with a
\* missing end date counting as more recent than any dated row
C20_OneEntryPerCodeMostRecent ==
    dictOut # DictUnset =>
        /\ \A i, j \in 1..Len(dictOut) :
              dictOut[i].Variable = dictOut[j].Variable => i = j
        /\ \A k \in 1..Len(dictOut) :
              \E i \in RowsOfVariable(dictOut[k].Variable) :
                  /\ MostRecentOf(i, dictOut[k].Variable)
                  /\ clean_description(dictRows[i].desc) = dictOut[k].Description

\* RCON2170 has a row ended in 2020 and a row with no end date: the entry of
\* the output is the one of the row with no end date
C20_Witness ==
    /\ dictEndCol
    /\ dictRows = <<[mnemonic |-> "RCON", item |-> "2170", end |-> "12/31/2020",
                     desc |-> "ASSETS"],
                    [mnemonic |-> "RCON", item |-> "2170", end |-> "",
                     desc |-> " TOTAL  ASSETS "]>>
    /\ dictOut = <<[Variable |-> "RCON2170", Description |-> "TOTAL ASSETS"]>>

(***************************************************************************)
(* C30: one reported quarter per hole (SpecGaps).                          *)
(***************************************************************************)
\* the quarters summarized for one category, in date order
RECURSIVE Ascending(_)
Ascending(periods) ==
    IF periods = {} THEN << >>
    ELSE LET least == CHOOSE n \in periods : \A o \in periods : n <= o
         IN  <<least>> \o Ascending(periods \ {least})

\* the positions i of the series whose quarter and the next present quarter
\* are not adjacent
NonAdjacentPairs(series) ==
    {i \in 1..(Len(series) - 1) : series[i + 1] # series[i] + 1}

\* C30: once the gap check has run on a summary of more than one row, the
\* gaps reported for a category are, in order, the quarters that follow the
\* first quarter of each pair of consecutive present quarters that are not
\* adjacent: one per such pair however many quarters the hole spans, so that
\* the number of reported gaps is the number of such pairs
C30_OneGapPerHole ==
    (gapState = "done" /\ Cardinality(summaryDf) > 1) =>
        \A e \in EntityNames :
            LET series   == Ascending(PeriodsOf(e))
                holes    == Ascending(NonAdjacentPairs(series))
                reported == ReportedGaps(e)
            IN  /\ Len(reported) = Len(holes)
                /\ \A k \in 1..Len(holes) :
                      QuarterIndex(reported[k].year, reported[k].q) = series[holes[k]] + 1

\* the gap check has run on a category summarized for 2019Q3 and 2020Q3 only:
\* the hole of three quarters is reported as 2019Q4 alone
C30_Witness ==
    /\ gapState = "done"
    /\ PeriodsOf("FFIEC_002") = {QuarterIndex(2019, 3), QuarterIndex(2020, 3)}
    /\ ReportedGaps("FFIEC_002") = <<[year |-> 2019, q |-> 4]>>

(***************************************************************************)
(* Claims about the classification column and the cutoff (SpecChicago).    *)
(***************************************************************************)
\* the last call read its file and the table has no RSSD9331 column
LastCallLacks9331 ==
    /\ lastCall.kind = "dict"
    /\ ~lastCall.readFailed
    /\ ~xptTable[lastCall.period].has9331

\* C25: a call of process_quarter that read a table with no RSSD9331 column
\* returned an empty result, wrote no file and raised nothing, and the run
\* goes on: when it has ended, every input file has been handed to
\* process_quarter
C25_NoClassificationColumnEmptyResult ==
    /\ LastCallLacks9331 =>
          /\ lastCall.results = {}
          /\ lastCall.wrote = {}
          /\ ~lastCall.raised
          /\ chiPc \in {"running", "done"}
    /\ chiPc = "done" => {r[1] : r \in runHist.reports} = DOMAIN xptTable

\* a run of two files has ended: the 2010Q4 table had no RSSD9331 column and
\* gave an empty result, and the 2011Q1 file after it was processed
C25_Witness ==
    /\ chiPc = "done"
    /\ DOMAIN xptTable = ChiPeriods
    /\ ~xptTable[Timestamp(2010, 12, 31)].has9331
    /\ <<Timestamp(2010, 12, 31), "dict">> \in runHist.reports
    /\ Timestamp(2010, 12, 31) \notin runHist.processed
    /\ Timestamp(2011, 3, 31) \in runHist.processed
    /\ \A e \in EntityNames : fs[OutputPath(e, Timestamp(2010, 12, 31))].state = "absent"

\* the categories whose file a period must have for the period to be skipped
EligibleCategories(reporting_period) ==
    IF DateLess(Timestamp(2010, 12, 31), reporting_period)
    THEN {"FFIEC_002", "FRB_2886b"}
    ELSE {"FFIEC_031_041", "FFIEC_002", "FRB_2886b"}

\* the rows of the last call's table that belong to category 1
HasCommercialRows(table) ==
    table.has9331 /\ \E r \in 1..Len(table.rows) : 1 \in table.rows[r]

\* C26: for a period after 2010-12-31 no FFIEC_031_041 file is ever written,
\* forced or not, and a call is skipped exactly when force is off and the
\* files of the two other categories exist; for a period up to 2010-12-31 a
\* call is skipped exactly when force is off and the files of all three
\* categories exist, and a call that goes through writes the FFIEC_031_041
\* file when the table has rows of that category
C26_CommercialBanksOnlyUpTo2010 ==
    /\ \A path \in DOMAIN fs :
          (path[1] = "FFIEC_031_041" /\ path[2] > 2010) => fs[path].state = "absent"
    /\ lastCall.kind # "none" =>
          /\ DateLess(Timestamp(2010, 12, 31), lastCall.period) =>
                "FFIEC_031_041" \notin lastCall.wrote
          /\ lastCall.kind = "skipped" <=>
                (~lastCall.force /\ EligibleCategories(lastCall.period) \subseteq lastCall.existed)
          /\ ( /\ ~DateLess(Timestamp(2010, 12, 31), lastCall.period)
               /\ lastCall.kind = "dict"
               /\ ~lastCall.raised
               /\ HasCommercialRows(xptTable[lastCall.period]) ) =>
                "FFIEC_031_041" \in lastCall.wrote

\* a call for 2011Q1 was skipped although no FFIEC_031_041 file exists for
\* the quarter
C26_Witness ==
    /\ lastCall.kind = "skipped"
    /\ lastCall.period = Timestamp(2011, 3, 31)
    /\ "FFIEC_031_041" \notin lastCall.existed
    /\ fs[OutputPath("FFIEC_031_041", lastCall.period)].state = "absent"
    /\ lastCall.existed = {"FFIEC_002", "FRB_2886b"}

(***************************************************************************)
(* C24: the counters of unrecognized names and of parse failures           *)
(* (SpecBulk, SpecRaw).                                                    *)
(***************************************************************************)
\* the FFIEC input files whose name gives a quarter and whose outcome is an
\* error
BulkRecognizedErrors ==
    {i \in 1..Len(bulkFiles) :
        /\ extract_quarter_from_filename(bulkFiles[i].name) # NoPeriod
        /\ <<i, "error">> \in bulkHist.outcomes}

\* the raw extraction's input files whose name gives a period and whose
\* status is an error
RawRecognizedErrors ==
    {i \in rawHist.attempted :
        /\ infer_reporting_period_from_filename(rawFiles[i].name) # NoPeriod
        /\ process_file_wrapper(rawFiles[i], rawFs, rawStartDate, rawEndDate).status = "error"}

\* C24: in the summary the error counter counts the files that failed to
\* read, parse or write and no file whose name matches no period pattern
C24_UnrecognizedNameNotAnError ==
    /\ bulkHist.summary => bulkCounts.error = Cardinality(BulkRecognizedErrors)
    /\ rawHist.summary => rawCounts.error = Cardinality(RawRecognizedErrors)

(***************************************************************************)
(* C21: one writer per output path (SpecRaw).                              *)
(***************************************************************************)
\* C21: in a run of parse_chicago.py no output path is written for more than
\* one input file, in sequential mode and in any order in which the workers
\* of the pool complete
C21_OneWriterPerPath ==
    \A w, v \in rawHist.writers : w[1] = v[1] => w[2] = v[2]

(***************************************************************************)
(* C22                                                                     *)
(***************************************************************************)
\* the columns of a member's text that bear one of the two standard
\* identifier names, whatever the letter case
PriorityColumns(content) ==
    {c \in 1..Len(content) : Upper(content[c].name) \in {"IDRSSD", "RSSD9001"}}

\* C22: when the text of a member holds a column named IDRSSD or RSSD9001
\* (in any letter case) next to another column whose name merely contains
\* RSSD, the table parse_text_content returns has the standard column as
\* its RSSD_ID, wherever the columns stand: RSSD_ID holds that column's
\* values and no column keeps the standard name.
C22_StandardIdentifierWins ==
    txtOut # TxtUnset =>
        \A i \in 1..Len(txtFile.members) :
            LET content == DecodeMember(txtFile.members[i])
                df      == txtOut.members[i].df
            IN  ( /\ txtFile.members[i].ext \in {".txt", ".csv"}
                  /\ PriorityColumns(content) # {}
                  /\ df # NoData ) =>
                    /\ \A c \in 1..Len(df) : Upper(df[c].name) \notin {"IDRSSD", "RSSD9001"}
                    /\ \E c \in PriorityColumns(content) :
                          ColumnOf(df, "RSSD_ID").vals =
                            [r \in 1..Len(ValidRows(content[c].vals, 1)) |->
                                ToNumber(content[c].vals[ValidRows(content[c].vals, 1)[r]])]

(***************************************************************************)
(* C23                                                                     *)
(***************************************************************************)
\* text with a header in which parse_text_content finds no identifier column
NoIdentifier(content) == content # << >> /\ FindRssdCol(content, 1) = 0

IsDataMember(member) == member.ext \in {".txt", ".csv"}

\* the .xpt table has no column "Ensure RSSD_ID exists" can use
NoResolvableColumn(names) ==
    \A c \in 1..Len(names) : Upper(names[c]) \notin (RssdNames \ {"RSSD9999", "RSSDDATE"})

\* C23: a table without a resolvable identifier column is passed over.  In
\* the delimited reader parse_text_content returns nothing for it, and a
\* file all of whose data members are such tables is written nowhere while
\* the loop pass ends normally; in the Chicago reader no RSSD_ID column is
\* created, no table reaches the writer and process_quarter returns an
\* empty result without raising.
C23_NoIdentifierNoOutput ==
    /\ txtOut # TxtUnset =>
          /\ \A i \in 1..Len(txtFile.members) :
                ( /\ IsDataMember(txtFile.members[i])
                  /\ NoIdentifier(DecodeMember(txtFile.members[i])) ) =>
                    txtOut.members[i].df = NoData
          /\ ( /\ txtFile.members # << >>
               /\ \A i \in 1..Len(txtFile.members) :
                     IsDataMember(txtFile.members[i]) =>
                        NoIdentifier(DecodeMember(txtFile.members[i])) ) =>
                  /\ txtOut.outcome = "error"
                  /\ txtOut.file = NoFile
    /\ (colOut.outcome \notin {"off", "unset"} /\ NoResolvableColumn(xptColumns.names)) =>
          /\ \A c \in 1..Len(colOut.columns) : colOut.columns[c].name # "RSSD_ID"
          /\ colOut.handed = << >>
          /\ colOut.outcome = "empty"

\* the Chicago reader has gone through a table whose only RSSD-named column
\* is the date column RSSD9999
C23_Witness ==
    /\ xptColumns.names = <<"RCON2170", "RSSD9999">>
    /\ colOut.outcome = "empty"
    /\ colOut.columns =
          << [name |-> "RCON2170", src |-> "RCON2170"],
             [name |-> "RSSD9999", src |-> "RSSD9999"],
             [name |-> "REPORTING_PERIOD", src |-> "(period)"] >>

(***************************************************************************)
(* C27                                                                     *)
(***************************************************************************)
\* C27: a .txt or .csv member of an archive whose bytes are not valid UTF-8
\* is parsed from its whole content all the same: the table the member loop
\* obtains for it is the one parse_text_content gives for the member's text,
\* so a member with an identifier column and rows is neither read as empty
\* nor dropped.
C27_Latin1MemberReadInFull ==
    txtOut # TxtUnset =>
        \A i \in 1..Len(txtFile.members) :
            ( /\ IsDataMember(txtFile.members[i])
              /\ ~txtFile.members[i].utf8
              /\ ~IsEmpty(parse_text_content(txtFile.members[i].table)) ) =>
                txtOut.members[i].df = parse_text_content(txtFile.members[i].table)

(***************************************************************************)
(* C28                                                                     *)
(***************************************************************************)
AllUpper(names) == \A n \in names : Upper(n) = n

\* C28: the table each reader returns has upper-case field names only: the
\* tables parse_text_content gave for the members, the table parse_zip_file
\* or parse_text_file returned for the file (before
\* convert_to_standard_format), and the table process_quarter works on.
C28_ReadersReturnUpperCaseNames ==
    /\ txtOut # TxtUnset =>
          /\ \A i \in 1..Len(txtOut.members) :
                txtOut.members[i].df # NoData => AllUpper(ColumnNames(txtOut.members[i].df))
          /\ txtOut.df # NoData => AllUpper(ColumnNames(txtOut.df))
    /\ colOut.outcome \notin {"off", "unset"} =>
          AllUpper({colOut.columns[c].name : c \in 1..Len(colOut.columns)})

(***************************************************************************)
(* C29                                                                     *)
(***************************************************************************)
\* C29: the column names of a table handed to the writer are pairwise
\* distinct once upper-cased, whatever the letter case of the names in the
\* source.
C29_WriterGetsDistinctNames ==
    /\ txtOut.file.state = "complete" =>
          \A c, d \in 1..Len(txtOut.file.fields) :
              Upper(txtOut.file.fields[c].name) = Upper(txtOut.file.fields[d].name) => c = d
    /\ \A c, d \in 1..Len(colOut.handed) :
          Upper(colOut.handed[c].name) = Upper(colOut.handed[d].name) => c = d
====
